---- MODULE Spec2Model ----
(***************************************************************************)
(* A model of the viberot daemon's event-to-action pipeline: the rule      *)
(* engine (rule_engine.rs), the action orchestrator                        *)
(* (action_orchestrator.rs) and the supervisor loop of main (main.rs),     *)
(* together with the lifecycle broadcast channel the probes write to and   *)
(* the child processes the orchestrator spawns.  The shell probe, the      *)
(* config watcher, path resolution, stop() of the probes, the locks of the *)
(* orchestrator, the body of the supervisor loop, match_command, the       *)
(* config file and the kernel probe are followed in specifications of      *)
(* their own.                                                              *)
(***************************************************************************)
EXTENDS Naturals, Sequences, FiniteSets, TLC

(***************************************************************************)
(* Bounds of the model.                                                    *)
(***************************************************************************)
\* total number of lifecycle events the probe sends in one run
MaxEvents == 3
\* total number of children spawned in one run
MaxChildren == 3
\* capacity of the lifecycle broadcast channel, scaled down from
\* broadcast::channel(1024) of main.rs:102
ChanCap == 1
\* total number of lines the shell probe's connections deliver in one run
MaxReads == 3
\* total number of change events of the config file in one run
MaxReloads == 1

(***************************************************************************)
(* Data: actions, rules, configs, commands (config.rs).                    *)
(* A command is a sequence of characters; a glob pattern is a sequence of  *)
(* tokens: a literal character, "*" (any run of characters) or "[" (an     *)
(* unclosed character class, which does not compile).                      *)
(***************************************************************************)
\* an Option is the empty set (None) or a singleton (Some)
None == {}
Some(x) == {x}
Unwrap(opt) == CHOOSE x \in opt : TRUE

Pids == {1, 2}

ActInfo == [type |-> "exec", path |-> "python", args |-> <<"info.py">>,
            single_instance |-> FALSE]
ActOverlay == [type |-> "exec", path |-> "overlay", args |-> <<>>,
               single_instance |-> TRUE]
ActLua == [type |-> "lua", script |-> "notify.lua", single_instance |-> TRUE]

\* rule 1 has two patterns that both match "ab"; rule 2 has a pattern that
\* does not compile and binds a single-instance and a scripted action
Config1 == [rules |-> <<
    [command |-> << <<"a", "*">>, <<"*", "b">> >>, action |-> <<ActInfo>>],
    [command |-> << <<"[">>, <<"b", "*">> >>,     action |-> <<ActOverlay, ActLua>>] >>]

\* the configs main may load at startup
Configs == {Config1}

\* a rule set in which "ba" matches two rules and that does not mention the
\* overlay action
Config2 == [rules |-> <<
    [command |-> << <<"b", "*">> >>, action |-> <<ActInfo>>],
    [command |-> << <<"*", "a">> >>, action |-> <<ActLua>>] >>]

\* the configs the file may parse to when it changes
LoadableConfigs == {Config1, Config2}

\* "ab" matches both patterns of rule 1, "ba" matches rule 2
Commands == { <<"a", "b">>, <<"b", "a">> }

Started(pid, command) == [tag |-> "Started", pid |-> pid, command |-> command]
Ended(pid) == [tag |-> "Ended", pid |-> pid]

LifecycleEvents ==
    {Started(p, c) : p \in Pids, c \in Commands} \cup {Ended(p) : p \in Pids}

(***************************************************************************)
(* Rule engine (rule_engine.rs).                                           *)
(***************************************************************************)
\* Glob::new: a pattern with an unclosed class is rejected
GlobCompiles(pattern) == \A i \in 1..Len(pattern) : pattern[i] # "["

\* one compiled glob against a command
RECURSIVE GlobMatch(_, _)
GlobMatch(pattern, s) ==
    IF pattern = <<>> THEN s = <<>>
    ELSE IF Head(pattern) = "*"
         THEN GlobMatch(Tail(pattern), s)
              \/ (s # <<>> /\ GlobMatch(pattern, Tail(s)))
         ELSE s # <<>> /\ Head(s) = Head(pattern)
              /\ GlobMatch(Tail(pattern), Tail(s))

\* GlobSet::matches: the indices of the matching globs, ascending
RECURSIVE MatchesFrom(_, _, _)
MatchesFrom(glob_set, command, i) ==
    IF i > Len(glob_set) THEN <<>>
    ELSE (IF GlobMatch(glob_set[i], command) THEN <<i>> ELSE <<>>)
         \o MatchesFrom(glob_set, command, i + 1)

GlobSetMatches(glob_set, command) == MatchesFrom(glob_set, command, 1)

\* a rebuild_cache that gives up on a rule at its first invalid pattern
RECURSIVE AddRuleGlobsStopsAtBadGlob(_, _, _, _)
AddRuleGlobsStopsAtBadGlob(data, commands, actions, j) ==
    IF j > Len(commands) \/ ~GlobCompiles(commands[j]) THEN data
    ELSE AddRuleGlobsStopsAtBadGlob(
            [glob_set |-> Append(data.glob_set, commands[j]),
             rule_actions |-> Append(data.rule_actions, actions)],
            commands, actions, j + 1)

\* a rebuild_cache that pushes the rule's action list for an invalid
\* pattern as well, while the glob set gets the compiled patterns only
RECURSIVE AddRuleGlobsPushesAlways(_, _, _, _)
AddRuleGlobsPushesAlways(data, commands, actions, j) ==
    IF j > Len(commands) THEN data
    ELSE AddRuleGlobsPushesAlways(
            [glob_set |-> IF GlobCompiles(commands[j])
                          THEN Append(data.glob_set, commands[j])
                          ELSE data.glob_set,
             rule_actions |-> Append(data.rule_actions, actions)],
            commands, actions, j + 1)

\* the inner loop of rebuild_cache over one rule's patterns: a compiled
\* pattern adds its glob and one copy of the rule's action list
RECURSIVE AddRuleGlobs(_, _, _, _)
AddRuleGlobs(data, commands, actions, j) ==
    IF j > Len(commands) THEN data
    ELSE AddRuleGlobs(
            IF GlobCompiles(commands[j])
            THEN [glob_set |-> Append(data.glob_set, commands[j]),
                  rule_actions |-> Append(data.rule_actions, actions)]
            ELSE data,
            commands, actions, j + 1)

\* the outer loop of rebuild_cache over the rules
RECURSIVE AddRules(_, _, _)
AddRules(data, rules, i) ==
    IF i > Len(rules) THEN data
    ELSE AddRules(AddRuleGlobs(data, rules[i].command, rules[i].action, 1),
                  rules, i + 1)

\* the width of the fingerprint, scaled down from the u64 of Hasher::finish
HashMod == 65536

Mix(h, x) == (h * 31 + x) % HashMod

\* the bytes the derived Hash implementations feed to the hasher
TokenCode(t) ==
    CASE t = "a" -> 1 [] t = "b" -> 2 [] t = "c" -> 3 [] t = "*" -> 4
      [] t = "[" -> 5 [] OTHER -> 6

StringCode(str) ==
    CASE str = "python" -> 11 [] str = "overlay" -> 12 [] str = "info.py" -> 13
      [] str = "notify.lua" -> 14 [] str = "missing" -> 15 [] OTHER -> 16

\* a str or a slice is hashed element by element, then its length
RECURSIVE HashPattern(_, _, _)
HashPattern(h, pattern, i) ==
    IF i > Len(pattern) THEN Mix(h, Len(pattern))
    ELSE HashPattern(Mix(h, TokenCode(pattern[i])), pattern, i + 1)

RECURSIVE HashPatterns(_, _, _)
HashPatterns(h, patterns, i) ==
    IF i > Len(patterns) THEN Mix(h, Len(patterns))
    ELSE HashPatterns(HashPattern(h, patterns[i], 1), patterns, i + 1)

RECURSIVE HashStrings(_, _, _)
HashStrings(h, strs, i) ==
    IF i > Len(strs) THEN Mix(h, Len(strs))
    ELSE HashStrings(Mix(h, StringCode(strs[i])), strs, i + 1)

HashAction(h, action) ==
    IF action.type = "exec"
    THEN Mix(HashStrings(Mix(Mix(h, 0), StringCode(action.path)), action.args, 1),
             IF action.single_instance THEN 1 ELSE 0)
    ELSE Mix(Mix(Mix(h, 1), StringCode(action.script)),
             IF action.single_instance THEN 1 ELSE 0)

RECURSIVE HashActions(_, _, _)
HashActions(h, actions, i) ==
    IF i > Len(actions) THEN Mix(h, Len(actions))
    ELSE HashActions(HashAction(h, actions[i]), actions, i + 1)

RECURSIVE HashRules(_, _, _)
HashRules(h, rules, i) ==
    IF i > Len(rules) THEN Mix(h, Len(rules))
    ELSE HashRules(HashActions(HashPatterns(h, rules[i].command, 1),
                               rules[i].action, 1),
                   rules, i + 1)

\* the fingerprint of a config (DefaultHasher over the derived Hash)
HashConfig(cfg) == HashRules(0, cfg.rules, 1)

\* the fingerprints of the configs of the model, computed once
KnownHashes == [cfg \in LoadableConfigs |-> HashConfig(cfg)]

calculate_config_hash(cfg) ==
    IF cfg \in LoadableConfigs THEN KnownHashes[cfg] ELSE HashConfig(cfg)

\* rebuild_cache: the new cached record for cfg
rebuild_cache(cfg, config_hash) ==
    LET built == AddRules([glob_set |-> <<>>, rule_actions |-> <<>>], cfg.rules, 1)
    IN  [config_hash |-> config_hash,
         glob_set |-> built.glob_set,
         rule_actions |-> built.rule_actions]

\* a match that concatenates the matching globs' actions last glob first
RECURSIVE CollectActionsLastFirst(_, _, _)
CollectActionsLastFirst(data, matches, k) ==
    IF k > Len(matches) THEN <<>>
    ELSE CollectActionsLastFirst(data, matches, k + 1) \o data.rule_actions[matches[k]]

\* the actions of the matching globs, concatenated in index order
RECURSIVE CollectActions(_, _, _)
CollectActions(data, matches, k) ==
    IF k > Len(matches) THEN <<>>
    ELSE data.rule_actions[matches[k]] \o CollectActions(data, matches, k + 1)

MatchWith(data, command) ==
    CollectActions(data, GlobSetMatches(data.glob_set, command), 1)

\* a match_command that rebuilds the cache on every call
NeedsRebuildAlways(cached, cfg) == TRUE

\* match_command takes the cache-miss path: nothing cached yet, or cached
\* under another fingerprint
NeedsRebuild(cached, cfg) ==
    ~(cached # None /\ Unwrap(cached).config_hash = calculate_config_hash(cfg))

\* a rebuild that stores the new fingerprint in the record that is cached
\* and leaves the glob set and the action lists for later
CacheAfterMatchHashFirst(cached, cfg) ==
    IF ~NeedsRebuild(cached, cfg) THEN cached
    ELSE IF cached = None
    THEN Some(rebuild_cache(cfg, calculate_config_hash(cfg)))
    ELSE Some([Unwrap(cached) EXCEPT !.config_hash = calculate_config_hash(cfg)])

\* the cache after match_command(command, cfg) was called on cache `cached`
CacheAfterMatch(cached, cfg) ==
    IF NeedsRebuild(cached, cfg)
    THEN Some(rebuild_cache(cfg, calculate_config_hash(cfg)))
    ELSE cached

\* match_command: the actions returned
match_command(cached, command, cfg) ==
    MatchWith(Unwrap(CacheAfterMatch(cached, cfg)), command)


(***************************************************************************)
(* State.                                                                  *)
(***************************************************************************)
VARIABLES
    config,                 \* the Config behind the RwLock of main
    cached_glob_data,       \* RuleEngine.cached_glob_data
    channel,                \* lifecycle events sent and not yet received
    lagged,                 \* the receiver fell behind and missed events
    sent,                   \* number of events the probe has sent
    active_actions,         \* pid -> sequence of child ids
    running_single_instance_actions,   \* set of action keys
    children,               \* every child ever spawned, by id
    pc,                     \* where main is: "loop", "cleanup" or "done"
    step,                   \* the cleanup statement main is at
    shutdownCalled,         \* shutdown() has been called
    leftBy,                 \* what ended the event loop
    draining,               \* the ActiveActions shutdown has still to terminate
    syncWait,               \* the child terminate_action_sync waits for, or 0
    shutdownReturned,       \* shutdown() has returned
    probeStopped,           \* probe.stop() has returned
    dispatched,             \* number of events handed to the orchestrator
    lastBatch,              \* what the last Started event did
    counter,                \* SYNTHETIC_PID_COUNTER of the shell probe
    active_sessions,        \* shell probe: session id -> Option of synthetic pid
    conn,                   \* shell probe: the connection handler tasks
    emitted,                \* shell probe: the lifecycle events sent, in order
    allocated,              \* shell probe: <<pid, session>> of every fetch_add
    reads,                  \* shell probe: number of lines read so far
    pendingWrites,          \* config watcher: parsed Configs whose write task has not run
    notified,               \* config watcher: change notifications sent
    reloads,                \* config watcher: change events of the config file seen
    loadErrors,             \* config watcher: reloads whose parse failed
    launch,                 \* a start_actions call followed through path resolution
    socket_file,            \* shell probe: the socket file exists
    socket_path_file,       \* shell probe: ~/.viberot/.socket exists
    trace_handle,           \* ETW probe: Option of the running trace
    stops,                  \* the stop() calls made so far: probe and result
    holder,                 \* orchestrator locks: the task holding each, or 0
    task,                   \* orchestrator calls running as concurrent tasks
    handling,               \* supervisor: the event in its handler, and where
    history,                \* the begin, insert, finish, end of each handling
    matching,               \* rule engine: the match_command calls in progress
    kernel_probe,           \* ETW probe: start(), its thread, the callback
    config_file,            \* the config file: None or its lines
    loads                   \* the Config::load calls made on the file so far

\* the state of the supervisor, the rule engine and the orchestrator
supervisorVars ==
    <<config, cached_glob_data, channel, lagged, sent, active_actions,
      running_single_instance_actions, children, pc, step, shutdownCalled,
      leftBy, draining, syncWait, shutdownReturned, probeStopped, dispatched,
      lastBatch>>

\* the state of the shell probe
shellVars == <<counter, active_sessions, conn, emitted, allocated, reads>>

\* the state of the config watcher
watcherVars == <<pendingWrites, notified, reloads, loadErrors>>

\* a start_actions call in progress
launchVars == <<launch>>

\* what stop() of the probes releases
stopVars == <<socket_file, socket_path_file, trace_handle, stops>>

\* the two locks of the orchestrator and the calls contending for them
lockVars == <<holder, task>>

\* the supervisor's position inside the body of its loop
loopVars == <<handling, history>>

\* the callers of match_command
matchVars == <<matching>>

\* the kernel probe
etwVars == <<kernel_probe>>

\* the config file and its loader
fileVars == <<config_file, loads>>

\* the state of the parts that are followed on their own, step by step
sideVars ==
    <<launchVars, stopVars, lockVars, loopVars, matchVars, etwVars, fileVars>>

vars == <<config, cached_glob_data, channel, lagged, sent, active_actions,
          running_single_instance_actions, children, pc, step, shutdownCalled,
          leftBy, draining, syncWait, shutdownReturned, probeStopped,
          dispatched, lastBatch, shellVars, watcherVars, sideVars>>

ChildIds == 1..Len(children)

Live(c) == children[c].status = "running"

(***************************************************************************)
(* Action orchestrator (action_orchestrator.rs).  The operators work on a  *)
(* record st of the orchestrator's state: active (active_actions),         *)
(* running (running_single_instance_actions), children, errors (the errors *)
(* collected by start_actions), spawned (the children spawned by the       *)
(* current start_actions call) and outcomes (what start_action did with    *)
(* each action of the current call, in order).                             *)
(***************************************************************************)
is_single_instance(action) == action.single_instance

RECURSIVE JoinArgs(_)
JoinArgs(args) ==
    IF args = <<>> THEN ""
    ELSE IF Len(args) = 1 THEN args[1]
    ELSE args[1] \o " " \o JoinArgs(Tail(args))

get_action_key(action) ==
    IF action.type = "exec"
    THEN "exec:" \o action.path \o ":" \o JoinArgs(action.args)
    ELSE "lua:" \o action.script

\* a freshly spawned child: stdin piped and held open by the daemon
NewChild(action, pid) ==
    [pid |-> pid, action |-> action, stdin |-> "open", status |-> "running",
     closes |-> 0, closedBy |-> "none", closePid |-> 0,
     timer |-> "none"]

\* ok: resolve_action_path and cmd.spawn() both succeeded
start_executable_action(st, action, pid, ok) ==
    IF ~ok THEN [st EXCEPT !.errors = @ + 1,
                           !.outcomes = Append(@, "error")]
    ELSE LET id == Len(st.children) + 1
         IN  [st EXCEPT !.children = Append(@, NewChild(action, pid)),
                        !.active[pid] = Append(@, id),
                        !.spawned = Append(@, id),
                        !.outcomes = Append(@, "spawned")]

start_action(st, action, pid, ok) ==
    IF is_single_instance(action) /\ get_action_key(action) \in st.running
    THEN [st EXCEPT !.outcomes = Append(@, "skipped")]
    ELSE LET marked == IF is_single_instance(action)
                       THEN [st EXCEPT !.running = @ \cup {get_action_key(action)}]
                       ELSE st
         IN  IF action.type = "exec"
             THEN start_executable_action(marked, action, pid, ok)
             ELSE [marked EXCEPT !.outcomes = Append(@, "rejected")]

\* the Result of start_actions: Err iff an error was collected
StartActionsResult(errors) == IF errors > 0 THEN "Err" ELSE "Ok"

RECURSIVE StartActionsFrom(_, _, _, _, _)
StartActionsFrom(st, actions, pid, oks, i) ==
    IF i > Len(actions) THEN st
    ELSE StartActionsFrom(start_action(st, actions[i], pid, oks[i]),
                          actions, pid, oks, i + 1)

start_actions(st, actions, pid, oks) == StartActionsFrom(st, actions, pid, oks, 1)

\* the first half of terminate_action: drop the child's stdin handle
CloseStdin(child, by, pid) ==
    [child EXCEPT !.stdin = "closed", !.closes = @ + 1,
                  !.closedBy = by, !.closePid = pid]

\* child.kill(): a forced termination signal; it has no effect on a child
\* that has already exited
Kill(child) ==
    IF child.status = "running" THEN [child EXCEPT !.status = "killed"] ELSE child

\* terminate_action without the stdin close
terminate_action_runtime_keeps_stdin(child, pid) ==
    [child EXCEPT !.timer = "pending"]

\* terminate_action(.., wait_for_completion = false): close stdin, spawn the
\* task that sleeps for the grace period and then kills
terminate_action_runtime(child, pid) ==
    [CloseStdin(child, "finish_action", pid) EXCEPT !.timer = "pending"]

\* terminate_action(.., wait_for_completion = true): close stdin, then wait
terminate_action_shutdown(child) ==
    [CloseStdin(child, "shutdown", child.pid) EXCEPT !.timer = "sync"]

SeqToSet(seq) == {seq[i] : i \in 1..Len(seq)}

\* a finish_action that looks the single-instance actions up in the current
\* rules instead of the ActiveAction
KeysOfCurrentRules(chs, list) ==
    {get_action_key(chs[list[i]].action) :
        i \in {j \in 1..Len(list) :
                 /\ is_single_instance(chs[list[j]].action)
                 /\ \E r \in 1..Len(config.rules) :
                       \E a \in 1..Len(config.rules[r].action) :
                           config.rules[r].action[a] = chs[list[j]].action}}

\* a finish_action that drops the key of every single-instance child there is
KeysOfEveryChild(chs, list) ==
    {get_action_key(chs[c].action) :
        c \in {j \in 1..Len(chs) : is_single_instance(chs[j].action)}}

\* the keys finish_action removes for the list it took out of active_actions
KeysOf(chs, list) ==
    {get_action_key(chs[list[i]].action) :
        i \in {j \in 1..Len(list) : is_single_instance(chs[list[j]].action)}}

\* the list finish_action takes out of active_actions
TakeActions(active, target_pid) == active[target_pid]

\* finish_action reading the list with get() instead of remove()
RemoveActionsKeepsList(active, target_pid) == active

\* active_actions once finish_action has taken the list of target_pid
RemoveActions(active, target_pid) == [active EXCEPT ![target_pid] = <<>>]

\* the shell probe's connections and the shell sessions that write to them
Conns == {1, 2}

Sessions == {"1", "2"}

\* the value the counter starts at, scaled down from 1_000_000
PidBase == 2

\* the number of values of the counter, scaled down from the 2^32 of AtomicU32
U32Mod == 4

\* a handler task that has just been spawned for an accepted connection
NewConn ==
    [pc |-> "read", buffer |-> <<>>, pending |-> <<>>, session_id |-> "",
     synthetic_pid |-> 0, line |-> <<>>, messages |-> <<>>,
     end_result |-> "none"]

\* the locks of the orchestrator (tokio RwLock, always taken with write())
Locks == {"active_actions", "running_single_instance_actions"}

\* the tasks that call the orchestrator concurrently
Tasks == {1, 2, 3}

\* a task that is in no orchestrator call
IdleTask == [call |-> "none", program |-> <<>>, pos |-> 0, held |-> <<>>]

\* no start_actions call is being followed
IdleLaunch ==
    [pc |-> "idle", paths |-> <<>>, env |-> <<>>, root |-> None, i |-> 0,
     result |-> <<>>, start |-> 0, end |-> 0, var_value |-> <<>>,
     out |-> [ok |-> TRUE, path |-> <<>>], outcomes |-> <<>>, ret |-> "none"]

\* the supervisor is at the select of its loop, in no handler body
IdleHandling ==
    [pc |-> "select", ev |-> None, actions |-> <<>>, i |-> 0, errors |-> 0]

\* the tasks that call match_command on the one rule engine
Callers == {1, 2}

\* a caller that is in no match_command call; n counts its calls so far
IdleMatch ==
    [pc |-> "idle", command |-> <<>>, cfg |-> None, config_hash |-> 0,
     answer |-> <<>>, from |-> None, n |-> 0]

\* the kernel probe before start(): no thread, no session, no handle
IdleEtw ==
    [start |-> "none", thread |-> "none", session |-> FALSE, handle |-> None,
     stop |-> "none", released |-> FALSE, records |-> 0, last |-> None,
     sent |-> <<>>]

(***************************************************************************)
(* The config file (config.rs).  A file is a sequence of lines: a comment  *)
(* (which may hold a commented-out example rule), a [[rules]] table with   *)
(* its rule, or text that is not TOML.                                     *)
(***************************************************************************)
Comment(text) == [kind |-> "comment", text |-> text]
RuleTable(rule) == [kind |-> "rule", rule |-> rule]
NotToml == [kind |-> "garbage"]

\* the actions of the rules that save_with_comments writes
ActTemplateOverlay ==
    [type |-> "exec",
     path |-> "${VIBEROT_ACTIONS}/overlay/target/release/viberot-overlay",
     args |-> <<"--exit-on-stdin-close">>, single_instance |-> TRUE]
ActTemplateInfo ==
    [type |-> "exec", path |-> "python3",
     args |-> <<"actions/example/info.py">>, single_instance |-> FALSE]
ActTemplateBell ==
    [type |-> "exec", path |-> "sh", args |-> <<"-c", "while true">>,
     single_instance |-> TRUE]

\* the text save_with_comments writes, whatever the Config it is called on:
\* the explanations with the commented-out examples, then three rules
TemplateFile ==
    << Comment("VibeRot Configuration File"),
       Comment("[[rules]] command = *npm-cli.js* install *"),
       Comment("Path Resolution"),
       RuleTable([command |-> << <<"*", "cargo build", "*">> >>,
                  action |-> <<ActTemplateOverlay>>]),
       RuleTable([command |-> << <<"*", "cargo build", "*">>,
                                 <<"*", "cargo run", "*">> >>,
                  action |-> <<ActTemplateInfo>>]),
       RuleTable([command |-> << <<"*", "cargo install", "*">> >>,
                  action |-> <<ActTemplateBell, ActTemplateOverlay>>]) >>

\* save_with_comments: the file written for cfg
save_with_comments(cfg) == TemplateFile

\* Default for Config
DefaultConfig == [rules |-> <<>>]

\* a file that holds the rules of cfg and nothing else
RECURSIVE RuleTables(_, _)
RuleTables(rules, i) ==
    IF i > Len(rules) THEN <<>>
    ELSE <<RuleTable(rules[i])>> \o RuleTables(rules, i + 1)

FileOf(cfg) == RuleTables(cfg.rules, 1)

\* the rules of the [[rules]] tables of a file, in order
RECURSIVE RulesIn(_, _)
RulesIn(content, i) ==
    IF i > Len(content) THEN <<>>
    ELSE (IF content[i].kind = "rule" THEN <<content[i].rule>> ELSE <<>>)
         \o RulesIn(content, i + 1)

\* toml::from_str::<Config>: text that is not TOML is an error, and so is a
\* file without the required key rules; comments are skipped
ParseToml(content) ==
    IF \E i \in 1..Len(content) : content[i].kind = "garbage" THEN None
    ELSE IF RulesIn(content, 1) = <<>> THEN None
    ELSE Some([rules |-> RulesIn(content, 1)])

\* Config::load on the file: without a file it writes the template and
\* returns the default Config (Err when the write fails), with a file it
\* parses it
ConfigLoadResult(file, writable) ==
    IF file = None
    THEN IF writable
         THEN [file |-> Some(save_with_comments(DefaultConfig)),
               result |-> Some(DefaultConfig), found |-> FALSE]
         ELSE [file |-> None, result |-> None, found |-> FALSE]
    ELSE [file |-> file, result |-> ParseToml(Unwrap(file)), found |-> TRUE]

\* what the user may leave at the path of the config file
FileContents ==
    {None, Some(TemplateFile), Some(<<NotToml>>),
     Some(<<Comment("no rules yet")>>)}
        \cup {Some(FileOf(cfg)) : cfg \in LoadableConfigs}

(***************************************************************************)
(* Initial state: main has loaded the config, created the channel, the     *)
(* rule engine and the orchestrator, started the probe and entered the     *)
(* event loop.                                                             *)
(***************************************************************************)
Init ==
    /\ config \in Configs
    /\ cached_glob_data = None
    /\ channel = <<>>
    /\ lagged = FALSE
    /\ sent = 0
    /\ active_actions = [p \in Pids |-> <<>>]
    /\ running_single_instance_actions = {}
    /\ children = <<>>
    /\ pc = "loop"
    /\ step = 1
    /\ shutdownCalled = FALSE
    /\ leftBy = "none"
    /\ draining = <<>>
    /\ syncWait = 0
    /\ shutdownReturned = FALSE
    /\ probeStopped = FALSE
    /\ dispatched = 0
    /\ lastBatch = [n |-> 0, pid |-> 0, command |-> <<>>, cfg |-> config,
                    actions |-> <<>>, spawned |-> <<>>, errors |-> 0,
                    outcomes |-> <<>>, result |-> "Ok",
                    cachedBefore |-> None, rebuilt |-> FALSE]
    /\ counter = PidBase
    /\ active_sessions = [s \in Sessions |-> None]
    /\ conn = [c \in Conns |-> NewConn]
    /\ emitted = <<>>
    /\ allocated = {}
    /\ reads = 0
    /\ pendingWrites = <<>>
    /\ notified = 0
    /\ reloads = 0
    /\ loadErrors = 0
    /\ launch = IdleLaunch
    /\ socket_file = TRUE
    /\ socket_path_file = TRUE
    /\ trace_handle = Some("CommandSidekickTrace")
    /\ stops = <<>>
    /\ holder = [l \in Locks |-> 0]
    /\ task = [t \in Tasks |-> IdleTask]
    /\ handling = IdleHandling
    /\ history = <<>>
    /\ matching = [t \in Callers |-> IdleMatch]
    /\ kernel_probe = IdleEtw
    /\ config_file = Some(FileOf(config))
    /\ loads = <<>>

(***************************************************************************)
(* The probe and the lifecycle broadcast channel.                          *)
(***************************************************************************)
\* Sender::send on a full channel overwrites the oldest value and the
\* receiver lags
ProbeSend(ev) ==
    /\ sent < MaxEvents
    /\ ~probeStopped
    /\ sent' = sent + 1
    /\ IF Len(channel) < ChanCap
       THEN channel' = Append(channel, ev) /\ UNCHANGED lagged
       ELSE channel' = Append(Tail(channel), ev) /\ lagged' = TRUE
    /\ UNCHANGED shellVars
    /\ UNCHANGED watcherVars
    /\ UNCHANGED sideVars
    /\ UNCHANGED <<config, cached_glob_data, active_actions,
                   running_single_instance_actions, children, pc, step,
                   shutdownCalled, leftBy, draining, syncWait,
                   shutdownReturned, probeStopped, dispatched, lastBatch>>

(***************************************************************************)
(* The supervisor's event loop (main.rs).                                  *)
(***************************************************************************)
\* the loop runs until a break
LoopRunning == pc = "loop"

\* a loop that propagates the error of start_actions with `?`
AfterStartActionsAborts(errors) == IF errors > 0 THEN "cleanup" ELSE "loop"

\* what the loop does once start_actions has returned: log, next iteration
AfterStartActions(errors) == "loop"

\* what the loop does once finish_action has returned: log, next iteration
AfterFinishAction(target_pid) == "loop"

\* what the loop does on Err(e) from lifecycle_rx.recv(): log, break
AfterRecvError(kind) == "cleanup"

OrchestratorState ==
    [active |-> active_actions, running |-> running_single_instance_actions,
     children |-> children, errors |-> 0, spawned |-> <<>>,
     outcomes |-> <<>>]

\* Ok(Started(event)): match against the rules, start the actions
HandleStarted ==
    /\ LoopRunning
    /\ ~lagged
    /\ channel # <<>>
    /\ Head(channel).tag = "Started"
    /\ LET ev == Head(channel)
           actions == match_command(cached_glob_data, ev.command, config)
       IN  /\ cached_glob_data' = CacheAfterMatch(cached_glob_data, config)
           /\ \E oks \in [1..Len(actions) -> BOOLEAN] :
                LET st == start_actions(OrchestratorState, actions, ev.pid, oks)
                IN  /\ Len(st.children) <= MaxChildren
                    /\ active_actions' = st.active
                    /\ running_single_instance_actions' = st.running
                    /\ children' = st.children
                    /\ lastBatch' = [n |-> dispatched + 1, pid |-> ev.pid,
                                     command |-> ev.command, cfg |-> config,
                                     actions |-> actions,
                                     spawned |-> st.spawned, errors |-> st.errors,
                                     outcomes |-> st.outcomes,
                                     result |-> StartActionsResult(st.errors),
                                     cachedBefore |-> cached_glob_data,
                                     rebuilt |-> NeedsRebuild(cached_glob_data, config)]
                    /\ pc' = IF actions = <<>> THEN pc
                             ELSE AfterStartActions(st.errors)
    /\ channel' = Tail(channel)
    /\ dispatched' = dispatched + 1
    /\ UNCHANGED shellVars
    /\ UNCHANGED watcherVars
    /\ UNCHANGED sideVars
    /\ UNCHANGED <<config, lagged, sent, step, shutdownCalled, leftBy,
                   draining, syncWait, shutdownReturned, probeStopped>>

\* finish_action(target_pid)
finish_action(target_pid) ==
    LET list == TakeActions(active_actions, target_pid)
    IN  /\ active_actions' = RemoveActions(active_actions, target_pid)
        /\ running_single_instance_actions' =
              running_single_instance_actions \ KeysOf(children, list)
        /\ children' = [c \in ChildIds |->
              IF c \in SeqToSet(list)
              THEN terminate_action_runtime(children[c], target_pid)
              ELSE children[c]]

\* Ok(Ended { pid })
HandleEnded ==
    /\ LoopRunning
    /\ ~lagged
    /\ channel # <<>>
    /\ Head(channel).tag = "Ended"
    /\ finish_action(Head(channel).pid)
    /\ pc' = AfterFinishAction(Head(channel).pid)
    /\ channel' = Tail(channel)
    /\ dispatched' = dispatched + 1
    /\ UNCHANGED shellVars
    /\ UNCHANGED watcherVars
    /\ UNCHANGED sideVars
    /\ UNCHANGED <<config, cached_glob_data, lagged, sent, step,
                   shutdownCalled, leftBy, draining, syncWait,
                   shutdownReturned, probeStopped, lastBatch>>

\* Err(e): the receiver lagged behind the channel's capacity
RecvError ==
    /\ LoopRunning
    /\ lagged
    /\ lagged' = FALSE
    /\ leftBy' = "Lagged"
    /\ pc' = AfterRecvError("Lagged")
    /\ UNCHANGED shellVars
    /\ UNCHANGED watcherVars
    /\ UNCHANGED sideVars
    /\ UNCHANGED <<config, cached_glob_data, channel, sent, active_actions,
                   running_single_instance_actions, children, step,
                   shutdownCalled, draining, syncWait, shutdownReturned,
                   probeStopped, dispatched, lastBatch>>

\* signal::ctrl_c() completes: break
Interrupt ==
    /\ LoopRunning
    /\ leftBy' = "interrupt"
    /\ pc' = "cleanup"
    /\ UNCHANGED shellVars
    /\ UNCHANGED watcherVars
    /\ UNCHANGED sideVars
    /\ UNCHANGED <<config, cached_glob_data, channel, lagged, sent,
                   active_actions, running_single_instance_actions, children,
                   step, shutdownCalled, draining, syncWait, shutdownReturned,
                   probeStopped, dispatched, lastBatch>>

(***************************************************************************)
(* Cleanup after the loop (main.rs) and shutdown() (action_orchestrator.rs)*)
(***************************************************************************)
\* cleanup that stops the probe before it shuts the orchestrator down
CleanupOrderStopFirst == <<"stop", "shutdown", "exit">>

\* the statements of main after the loop, in program order
CleanupOrder == <<"shutdown", "stop", "exit">>

Phase == IF pc = "cleanup" THEN CleanupOrder[step] ELSE "none"

\* the orders in which HashMap::drain may yield the pids
PidOrders ==
    {o \in [1..Cardinality(Pids) -> Pids] :
        \A i, j \in 1..Cardinality(Pids) : o[i] = o[j] => i = j}

\* a drain that yields the list of one pid only
DrainFirstOnly(active, order, i) ==
    IF i > Len(order) THEN <<>> ELSE active[order[i]]

RECURSIVE DrainFrom(_, _, _)
DrainFrom(active, order, i) ==
    IF i > Len(order) THEN <<>>
    ELSE active[order[i]] \o DrainFrom(active, order, i + 1)

\* shutdown(): take the write lock and drain active_actions
ShutdownBegin ==
    /\ Phase = "shutdown"
    /\ ~shutdownCalled
    /\ shutdownCalled' = TRUE
    /\ \E order \in PidOrders : draining' = DrainFrom(active_actions, order, 1)
    /\ active_actions' = [p \in Pids |-> <<>>]
    /\ UNCHANGED shellVars
    /\ UNCHANGED watcherVars
    /\ UNCHANGED sideVars
    /\ UNCHANGED <<config, cached_glob_data, channel, lagged, sent,
                   running_single_instance_actions, children, pc, step, leftBy,
                   syncWait, shutdownReturned, probeStopped, dispatched,
                   lastBatch>>

\* shutdown(): terminate_action(active_action, .., true) closes the stdin of
\* the next drained child and starts the bounded wait
ShutdownTerminate ==
    /\ Phase = "shutdown"
    /\ shutdownCalled /\ ~shutdownReturned
    /\ draining # <<>>
    /\ syncWait = 0
    /\ LET c == Head(draining)
       IN  /\ children' = [children EXCEPT ![c] = terminate_action_shutdown(@)]
           /\ syncWait' = c
    /\ draining' = Tail(draining)
    /\ UNCHANGED shellVars
    /\ UNCHANGED watcherVars
    /\ UNCHANGED sideVars
    /\ UNCHANGED <<config, cached_glob_data, channel, lagged, sent,
                   active_actions, running_single_instance_actions, pc, step,
                   shutdownCalled, leftBy, shutdownReturned, probeStopped,
                   dispatched, lastBatch>>

\* terminate_action_sync: child.wait() completed within the timeout
SyncExited ==
    /\ syncWait # 0
    /\ ~Live(syncWait)
    /\ children' = [children EXCEPT ![syncWait].timer = "syncdone"]
    /\ syncWait' = 0
    /\ UNCHANGED shellVars
    /\ UNCHANGED watcherVars
    /\ UNCHANGED sideVars
    /\ UNCHANGED <<config, cached_glob_data, channel, lagged, sent,
                   active_actions, running_single_instance_actions, pc, step,
                   shutdownCalled, leftBy, draining, shutdownReturned,
                   probeStopped, dispatched, lastBatch>>

\* terminate_action_sync: the 3-second timeout elapsed first, force kill
SyncTimeout ==
    /\ syncWait # 0
    /\ Live(syncWait)
    /\ children' = [children EXCEPT ![syncWait] = [Kill(@) EXCEPT !.timer = "syncdone"]]
    /\ syncWait' = 0
    /\ UNCHANGED shellVars
    /\ UNCHANGED watcherVars
    /\ UNCHANGED sideVars
    /\ UNCHANGED <<config, cached_glob_data, channel, lagged, sent,
                   active_actions, running_single_instance_actions, pc, step,
                   shutdownCalled, leftBy, draining, shutdownReturned,
                   probeStopped, dispatched, lastBatch>>

\* shutdown(): clear the single-instance tracking and return
ShutdownReturn ==
    /\ Phase = "shutdown"
    /\ shutdownCalled /\ ~shutdownReturned
    /\ draining = <<>>
    /\ syncWait = 0
    /\ running_single_instance_actions' = {}
    /\ shutdownReturned' = TRUE
    /\ step' = step + 1
    /\ UNCHANGED shellVars
    /\ UNCHANGED watcherVars
    /\ UNCHANGED sideVars
    /\ UNCHANGED <<config, cached_glob_data, channel, lagged, sent,
                   active_actions, children, pc, shutdownCalled, leftBy,
                   draining, syncWait, probeStopped, dispatched, lastBatch>>

\* probe.stop()
ProbeStop ==
    /\ Phase = "stop"
    /\ probeStopped' = TRUE
    /\ step' = step + 1
    /\ UNCHANGED shellVars
    /\ UNCHANGED watcherVars
    /\ UNCHANGED sideVars
    /\ UNCHANGED <<config, cached_glob_data, channel, lagged, sent,
                   active_actions, running_single_instance_actions, children,
                   pc, shutdownCalled, leftBy, draining, syncWait,
                   shutdownReturned, dispatched, lastBatch>>

\* a task of the runtime that is dropped with the runtime never runs again
DropTimer(child) ==
    IF child.timer = "pending" THEN [child EXCEPT !.timer = "dropped"] ELSE child

\* main returns: the runtime is dropped and with it every task that is
\* still sleeping; a dropped Child handle does not kill its process
Exit ==
    /\ Phase = "exit"
    /\ pc' = "done"
    /\ children' = [c \in ChildIds |-> DropTimer(children[c])]
    /\ UNCHANGED shellVars
    /\ UNCHANGED watcherVars
    /\ UNCHANGED sideVars
    /\ UNCHANGED <<config, cached_glob_data, channel, lagged, sent,
                   active_actions, running_single_instance_actions, step,
                   shutdownCalled, leftBy, draining, syncWait,
                   shutdownReturned, probeStopped, dispatched, lastBatch>>

(***************************************************************************)
(* Children and the termination tasks.  Time is not measured: a sleep or   *)
(* a timeout of the 3-second grace period may be over at any later step.   *)
(***************************************************************************)
\* a child exits on its own (on stdin EOF, or for any reason of its own)
ChildExit(c) ==
    /\ c \in ChildIds
    /\ Live(c)
    /\ children' = [children EXCEPT ![c].status = "exited"]
    /\ UNCHANGED shellVars
    /\ UNCHANGED watcherVars
    /\ UNCHANGED sideVars
    /\ UNCHANGED <<config, cached_glob_data, channel, lagged, sent,
                   active_actions, running_single_instance_actions, pc, step,
                   shutdownCalled, leftBy, draining, syncWait,
                   shutdownReturned, probeStopped, dispatched, lastBatch>>

\* terminate_action_async: the 3-second sleep is over, kill
TimerFire(c) ==
    /\ c \in ChildIds
    /\ children[c].timer = "pending"
    /\ children' = [children EXCEPT ![c] = [Kill(@) EXCEPT !.timer = "fired"]]
    /\ UNCHANGED shellVars
    /\ UNCHANGED watcherVars
    /\ UNCHANGED sideVars
    /\ UNCHANGED <<config, cached_glob_data, channel, lagged, sent,
                   active_actions, running_single_instance_actions, pc, step,
                   shutdownCalled, leftBy, draining, syncWait,
                   shutdownReturned, probeStopped, dispatched, lastBatch>>

(***************************************************************************)
(* The shell probe (platform/posix_shell.rs).  A line is a sequence of     *)
(* characters.  A record {"session_id": s, "event_type": t} is written     *)
(* <<"{", t, s, "}">> with t = "S" for CommandStart and "E" for            *)
(* CommandEnd; it carries no command field.                                *)
(***************************************************************************)
StartLine(s) == <<"{", "S", s, "}">>
EndLine(s) == <<"{", "E", s, "}">>

\* the lines a shell hook, or anything else that connects, may write: the
\* records, a blank line, a line without braces, a line in braces that is
\* not a ShellMessage
Lines ==
    {StartLine(s) : s \in Sessions} \cup {EndLine(s) : s \in Sessions}
        \cup { <<" ">>, <<"x">>, <<"{", "x", "}">> }

\* fetch_add(1): the value returned and the wrapped successor stored
generate_synthetic_pid(ctr) == [pid |-> ctr, counter |-> (ctr + 1) % U32Mod]

IsSpace(ch) == ch \in {" ", "\n", "\r", "\t"}

RECURSIVE TrimStart(_)
TrimStart(str) ==
    IF str # <<>> /\ IsSpace(Head(str)) THEN TrimStart(Tail(str)) ELSE str

RECURSIVE TrimEnd(_)
TrimEnd(str) ==
    IF str # <<>> /\ IsSpace(str[Len(str)])
    THEN TrimEnd(SubSeq(str, 1, Len(str) - 1))
    ELSE str

Trim(str) == TrimEnd(TrimStart(str))

\* str::lines: split at "\n"; a last line without "\n" is a line as well
RECURSIVE SplitLines(_, _)
SplitLines(str, cur) ==
    IF str = <<>> THEN (IF cur = <<>> THEN <<>> ELSE <<cur>>)
    ELSE IF Head(str) = "\n" THEN <<cur>> \o SplitLines(Tail(str), <<>>)
    ELSE SplitLines(Tail(str), Append(cur, Head(str)))

LooksComplete(line) ==
    line # <<>> /\ Head(line) = "{" /\ line[Len(line)] = "}"

\* the loop of extract_json_messages over the lines of the buffer
RECURSIVE ExtractFrom(_, _, _)
ExtractFrom(lines, i, acc) ==
    IF i > Len(lines) THEN acc
    ELSE LET line == Trim(lines[i])
         IN  ExtractFrom(lines, i + 1,
                IF line = <<>> THEN acc
                ELSE IF LooksComplete(line)
                     THEN [acc EXCEPT !.messages = Append(@, line)]
                     ELSE [acc EXCEPT !.buffer =
                              (IF @ = <<>> THEN @ ELSE Append(@, "\n")) \o line])

\* extract_json_messages: the messages returned and the buffer left
extract_json_messages(buffer) ==
    ExtractFrom(SplitLines(buffer, <<>>), 1, [messages |-> <<>>, buffer |-> <<>>])

\* serde_json::from_str::<ShellMessage>
ParseShellMessage(json_str) ==
    IF /\ Len(json_str) = 4
       /\ json_str[1] = "{" /\ json_str[4] = "}"
       /\ json_str[2] \in {"S", "E"}
       /\ json_str[3] \in Sessions
    THEN Some([event_type |-> IF json_str[2] = "S" THEN "CommandStart"
                              ELSE "CommandEnd",
               session_id |-> json_str[3]])
    ELSE None

\* read_line returns the next line, the handler appends it to the buffer and
\* extracts the complete messages
ConnRead(c, l) ==
    /\ conn[c].pc = "read"
    /\ reads < MaxReads
    /\ reads' = reads + 1
    /\ LET ex == extract_json_messages(conn[c].buffer \o l \o <<"\n">>)
       IN  conn' = [conn EXCEPT ![c] =
                       [@ EXCEPT !.buffer = ex.buffer,
                                 !.pending = ex.messages,
                                 !.line = l,
                                 !.messages = ex.messages,
                                 !.pc = IF ex.messages = <<>> THEN "read" ELSE "msg"]]
    /\ UNCHANGED <<counter, active_sessions, emitted, allocated>>
    /\ UNCHANGED supervisorVars
    /\ UNCHANGED watcherVars
    /\ UNCHANGED sideVars

\* the for loop over the messages is done: back to read_line
ConnLoop(c) ==
    /\ conn[c].pc = "msg"
    /\ conn[c].pending = <<>>
    /\ conn' = [conn EXCEPT ![c].pc = "read"]
    /\ UNCHANGED <<counter, active_sessions, emitted, allocated, reads>>
    /\ UNCHANGED supervisorVars
    /\ UNCHANGED watcherVars
    /\ UNCHANGED sideVars

\* Err(e) of from_str: log, next message
ConnParseError(c) ==
    /\ conn[c].pc = "msg"
    /\ conn[c].pending # <<>>
    /\ ParseShellMessage(Head(conn[c].pending)) = None
    /\ conn' = [conn EXCEPT ![c].pending = Tail(@)]
    /\ UNCHANGED <<counter, active_sessions, emitted, allocated, reads>>
    /\ UNCHANGED supervisorVars
    /\ UNCHANGED watcherVars
    /\ UNCHANGED sideVars

\* CommandStart, up to the lock of active_sessions: take the synthetic pid
ConnStart(c) ==
    /\ conn[c].pc = "msg"
    /\ conn[c].pending # <<>>
    /\ ParseShellMessage(Head(conn[c].pending)) # None
    /\ LET msg == Unwrap(ParseShellMessage(Head(conn[c].pending)))
           got == generate_synthetic_pid(counter)
       IN  /\ msg.event_type = "CommandStart"
           /\ counter' = got.counter
           /\ allocated' = allocated \cup {<<got.pid, msg.session_id>>}
           /\ conn' = [conn EXCEPT ![c] =
                          [@ EXCEPT !.pending = Tail(@),
                                    !.session_id = msg.session_id,
                                    !.synthetic_pid = got.pid,
                                    !.pc = "insert"]]
    /\ UNCHANGED <<active_sessions, emitted, reads>>
    /\ UNCHANGED supervisorVars
    /\ UNCHANGED watcherVars
    /\ UNCHANGED sideVars

\* CommandStart: sessions.insert(session_id, synthetic_pid) under the lock
ConnInsert(c) ==
    /\ conn[c].pc = "insert"
    /\ active_sessions' = [active_sessions EXCEPT ![conn[c].session_id] =
                              Some(conn[c].synthetic_pid)]
    /\ conn' = [conn EXCEPT ![c].pc = "send"]
    /\ UNCHANGED <<counter, emitted, allocated, reads>>
    /\ UNCHANGED supervisorVars
    /\ UNCHANGED watcherVars
    /\ UNCHANGED sideVars

\* CommandStart: lifecycle_sender.send(Started(event)), the lock released
ConnSendStarted(c) ==
    /\ conn[c].pc = "send"
    /\ emitted' = Append(emitted, Started(conn[c].synthetic_pid, "<unknown command>"))
    /\ conn' = [conn EXCEPT ![c].pc = "msg"]
    /\ UNCHANGED <<counter, active_sessions, allocated, reads>>
    /\ UNCHANGED supervisorVars
    /\ UNCHANGED watcherVars
    /\ UNCHANGED sideVars

\* a CommandEnd that sends an Ended event for an unknown session as well
EndedForUnknownToo(stored) ==
    IF stored = None THEN <<Ended(0)>> ELSE <<Ended(Unwrap(stored))>>

\* the Ended event a CommandEnd sends for the mapping it removed
EndedFor(stored) == IF stored = None THEN <<>> ELSE <<Ended(Unwrap(stored))>>

\* CommandEnd: under the lock, sessions.remove(session_id) and, for Some(pid),
\* lifecycle_sender.send(Ended { pid })
ConnEnd(c) ==
    /\ conn[c].pc = "msg"
    /\ conn[c].pending # <<>>
    /\ ParseShellMessage(Head(conn[c].pending)) # None
    /\ LET msg == Unwrap(ParseShellMessage(Head(conn[c].pending)))
       IN  /\ msg.event_type = "CommandEnd"
           /\ emitted' = emitted \o EndedFor(active_sessions[msg.session_id])
           /\ active_sessions' = [active_sessions EXCEPT ![msg.session_id] = None]
           /\ conn' = [conn EXCEPT ![c] =
                          [@ EXCEPT !.pending = Tail(@),
                                    !.session_id = msg.session_id,
                                    !.end_result =
                                        IF active_sessions[msg.session_id] = None
                                        THEN "unknown" ELSE "sent"]]
    /\ UNCHANGED <<counter, allocated, reads>>
    /\ UNCHANGED supervisorVars
    /\ UNCHANGED watcherVars
    /\ UNCHANGED sideVars

\* the accept loop spawns one handler task per connection; the tasks run
\* in parallel on the runtime's worker threads
ProbeNext ==
    \/ \E c \in Conns, l \in Lines : ConnRead(c, l)
    \/ \E c \in Conns : ConnLoop(c)
    \/ \E c \in Conns : ConnParseError(c)
    \/ \E c \in Conns : ConnStart(c)
    \/ \E c \in Conns : ConnInsert(c)
    \/ \E c \in Conns : ConnSendStarted(c)
    \/ \E c \in Conns : ConnEnd(c)

(***************************************************************************)
(* The config watcher (config_watcher.rs) and the Config behind the lock.  *)
(***************************************************************************)
\* a write of the Config that lands rule by rule
ReplaceConfigRuleByRule(old, new) ==
    [rules |-> <<new.rules[1]>> \o Tail(old.rules)]

\* *config_guard = new_config, under the write lock
ReplaceConfig(old, new) == new

\* a callback that falls back to an empty rule set when the parse fails
WatchCallbackResetsOnError(w, loaded) ==
    IF loaded = None
    THEN [pending |-> Append(w.pending, [rules |-> <<>>]), notified |-> w.notified + 1]
    ELSE [pending |-> Append(w.pending, Unwrap(loaded)), notified |-> w.notified + 1]

\* the watch callback on an event for the config file, loaded being the
\* result of Config::load: Ok spawns the task that will write the Config
\* and sends the change notification, Err only logs
WatchCallback(w, loaded) ==
    IF loaded = None
    THEN w
    ELSE [pending |-> Append(w.pending, Unwrap(loaded)), notified |-> w.notified + 1]

\* the config file changed and the watcher re-parsed it
ConfigFileChanged(loaded) ==
    /\ reloads < MaxReloads
    /\ reloads' = reloads + 1
    /\ loadErrors' = IF loaded = None THEN loadErrors + 1 ELSE loadErrors
    /\ LET w == WatchCallback([pending |-> pendingWrites, notified |-> notified], loaded)
       IN  /\ pendingWrites' = w.pending
           /\ notified' = w.notified
    /\ UNCHANGED supervisorVars
    /\ UNCHANGED shellVars
    /\ UNCHANGED sideVars

\* one of the spawned write tasks gets the write lock; the supervisor holds
\* the read lock for the whole handling of a Started event, so the write
\* lands between two events
ApplyConfig(i) ==
    /\ i \in 1..Len(pendingWrites)
    /\ config' = ReplaceConfig(config, pendingWrites[i])
    /\ pendingWrites' = SubSeq(pendingWrites, 1, i - 1)
                          \o SubSeq(pendingWrites, i + 1, Len(pendingWrites))
    /\ UNCHANGED <<cached_glob_data, channel, lagged, sent, active_actions,
                   running_single_instance_actions, children, pc, step,
                   shutdownCalled, leftBy, draining, syncWait,
                   shutdownReturned, probeStopped, dispatched, lastBatch>>
    /\ UNCHANGED shellVars
    /\ UNCHANGED <<notified, reloads, loadErrors>>
    /\ UNCHANGED sideVars

\* the daemon in its event loop while the config file changes
ReloadNext ==
    \/ \E ev \in LifecycleEvents : ProbeSend(ev)
    \/ HandleStarted
    \/ HandleEnded
    \/ \E loaded \in {None} \cup {Some(cfg) : cfg \in LoadableConfigs} :
          ConfigFileChanged(loaded)
    \/ \E i \in 1..MaxReloads : ApplyConfig(i)

(***************************************************************************)
(* Path resolution (action_orchestrator.rs), followed through a            *)
(* start_actions call over a batch of executable actions.  A path is a     *)
(* sequence of tokens: the characters "$", "{", "}", "/", "\", "." and     *)
(* " ", and runs of other characters.                                      *)
(***************************************************************************)
\* the action paths of the batches
ActionPaths ==
    { <<"python">>,
      <<" ", "python", " ">>,
      <<"notepad", ".", "exe">>,
      <<"$", "{", "VIBEROT_ACTIONS", "}", "/", "overlay">>,
      <<"$", "{", "VIBEROT_HOME", "}", "/", "t">>,
      <<".", "/", "local", "/", "tool">>,
      <<"/", "usr", "/", "bin", "/", "tool">>,
      <<"$", "{", "TOOLS", "}", "/", "t">>,
      <<"t", "/", "$", "{", "TOOLS">> }

\* the environment variable the paths name and what it may be set to
EnvNames == { <<"TOOLS">> }

EnvValues == { <<"/", "opt", "/", "tools">> }

\* the process environments: each name unset or set
Envs == [EnvNames -> {None} \cup {Some(v) : v \in EnvValues}]

\* where the project root may be found, if anywhere
Roots == {None, Some(<<"/", "opt", "/", "viberot">>), Some(<<"/", "r">>)}

\* number of actions of a batch
MaxBatch == 2

Batches == UNION {[1..n -> ActionPaths] : n \in 1..MaxBatch}

Contains(str, ch) == \E i \in 1..Len(str) : str[i] = ch

\* the test of resolve_action_path for a plain executable name
IsBareName(path_str) ==
    ~Contains(path_str, "/") /\ ~Contains(path_str, "\\") /\ ~Contains(path_str, ".")

\* the smallest element of a non-empty set of positions
First(positions) == CHOOSE i \in positions : \A j \in positions : i <= j

\* result.find("${"): the position of the first "${", or 0
FindOpen(str) ==
    LET hits == {i \in 1..Len(str) : i < Len(str) /\ str[i] = "$" /\ str[i + 1] = "{"}
    IN  IF hits = {} THEN 0 ELSE First(hits)

\* result[start..].find('}'): the position of the first "}" from start on, or 0
FindClose(str, start) ==
    LET hits == {j \in start..Len(str) : str[j] = "}"}
    IN  IF hits = {} THEN 0 ELSE First(hits)

\* env::var(var_name)
env_var(env, var_name) ==
    IF var_name \in DOMAIN env THEN env[var_name] ELSE None

\* get_viberot_root: the search of the file system either finds the root
\* or fails
get_viberot_root(root) == root

\* Path::is_absolute on a POSIX system
IsAbsolute(path) == path # <<>> /\ Head(path) = "/"

\* PathBuf::join: an absolute path replaces the base
PathJoin(base, path) ==
    IF IsAbsolute(path) THEN path
    ELSE IF base # <<>> /\ base[Len(base)] = "/" THEN base \o path
    ELSE base \o <<"/">> \o path

\* the value the loop substitutes for ${var_name}, None when
\* get_viberot_root()? returns the error; an unset variable gives the
\* placeholder itself
VarValue(var_name, env, root) ==
    IF var_name = <<"VIBEROT_HOME">>
    THEN get_viberot_root(root)
    ELSE IF var_name = <<"VIBEROT_ACTIONS">>
    THEN (IF get_viberot_root(root) = None THEN None
          ELSE Some(PathJoin(Unwrap(get_viberot_root(root)), <<"actions">>)))
    ELSE IF env_var(env, var_name) = None
    THEN Some(<<"$", "{">> \o var_name \o <<"}">>)
    ELSE env_var(env, var_name)

\* result.replace_range(start..start + end + 1, &var_value)
ReplaceRange(str, start, end, var_value) ==
    SubSeq(str, 1, start - 1) \o var_value \o SubSeq(str, end + 1, Len(str))

PathOk(path) == [ok |-> TRUE, path |-> path]

PathErr == [ok |-> FALSE, path |-> <<>>]

\* a resolve_action_path that looks the project root up before it tests
\* for an absolute path
ResolveExpandedRootFirst(expanded_path, root) ==
    IF get_viberot_root(root) = None THEN PathErr
    ELSE PathOk(PathJoin(Unwrap(get_viberot_root(root)), expanded_path))

\* resolve_action_path once the placeholders are expanded: an absolute path
\* as it is, a relative one joined onto the project root
ResolveExpanded(expanded_path, root) ==
    IF IsAbsolute(expanded_path) THEN PathOk(expanded_path)
    ELSE IF get_viberot_root(root) = None THEN PathErr
    ELSE PathOk(PathJoin(Unwrap(get_viberot_root(root)), expanded_path))

\* start_actions(actions, event) is called
StartActionsCall(paths, env, root) ==
    /\ launch.pc = "idle"
    /\ launch' = [IdleLaunch EXCEPT !.pc = "resolve", !.paths = paths,
                                    !.env = env, !.root = root, !.i = 1]
    /\ UNCHANGED <<supervisorVars, shellVars, watcherVars, stopVars, lockVars,
                   loopVars, matchVars, etwVars,
                   fileVars>>

\* resolve_action_path: trim, and return a plain executable name as it is
ResolveEnter ==
    /\ launch.pc = "resolve"
    /\ LET path_str == Trim(launch.paths[launch.i])
       IN  launch' = [launch EXCEPT
                !.result = path_str,
                !.out = PathOk(path_str),
                !.pc = IF IsBareName(path_str) THEN "resolved" ELSE "find"]
    /\ UNCHANGED <<supervisorVars, shellVars, watcherVars, stopVars, lockVars,
                   loopVars, matchVars, etwVars,
                   fileVars>>

\* expand_environment_variables, the head of the loop: find the next
\* placeholder and the value to substitute
ExpandFind ==
    /\ launch.pc = "find"
    /\ LET start == FindOpen(launch.result)
           end == IF start = 0 THEN 0 ELSE FindClose(launch.result, start)
           var_name == SubSeq(launch.result, start + 2, end - 1)
           var_value == VarValue(var_name, launch.env, launch.root)
       IN  launch' =
             IF start = 0 \/ end = 0
             THEN [launch EXCEPT !.pc = "expanded"]
             ELSE IF var_value = None
             THEN [launch EXCEPT !.pc = "resolved", !.out = PathErr]
             ELSE [launch EXCEPT !.pc = "replace", !.start = start, !.end = end,
                                 !.var_value = Unwrap(var_value)]
    /\ UNCHANGED <<supervisorVars, shellVars, watcherVars, stopVars, lockVars,
                   loopVars, matchVars, etwVars,
                   fileVars>>

\* expand_environment_variables, the end of the loop body: substitute and
\* search again
ExpandReplace ==
    /\ launch.pc = "replace"
    /\ launch' = [launch EXCEPT
            !.result = ReplaceRange(@, launch.start, launch.end, launch.var_value),
            !.pc = "find"]
    /\ UNCHANGED <<supervisorVars, shellVars, watcherVars, stopVars, lockVars,
                   loopVars, matchVars, etwVars,
                   fileVars>>

\* resolve_action_path after the expansion
ResolveFinish ==
    /\ launch.pc = "expanded"
    /\ launch' = [launch EXCEPT !.out = ResolveExpanded(launch.result, launch.root),
                                !.pc = "resolved"]
    /\ UNCHANGED <<supervisorVars, shellVars, watcherVars, stopVars, lockVars,
                   loopVars, matchVars, etwVars,
                   fileVars>>

\* start_executable_action once the path is resolved, spawned telling
\* whether cmd.spawn() succeeds, and the loop of start_actions going on to
\* the next action or returning
LaunchResolved(spawned) ==
    /\ launch.pc = "resolved"
    /\ LET outcomes == Append(launch.outcomes,
                              IF launch.out.ok /\ spawned THEN "spawned" ELSE "error")
           errors == Cardinality({k \in 1..Len(outcomes) : outcomes[k] = "error"})
       IN  launch' =
             IF launch.i < Len(launch.paths)
             THEN [launch EXCEPT !.outcomes = outcomes, !.i = @ + 1, !.pc = "resolve"]
             ELSE [launch EXCEPT !.outcomes = outcomes, !.pc = "returned",
                                 !.ret = StartActionsResult(errors)]
    /\ UNCHANGED <<supervisorVars, shellVars, watcherVars, stopVars, lockVars,
                   loopVars, matchVars, etwVars,
                   fileVars>>

\* the caller takes the Result
StartActionsDone ==
    /\ launch.pc = "returned"
    /\ launch' = IdleLaunch
    /\ UNCHANGED <<supervisorVars, shellVars, watcherVars, stopVars, lockVars,
                   loopVars, matchVars, etwVars,
                   fileVars>>

\* one caller of start_actions, as the event loop is
LaunchNext ==
    \/ \E paths \in Batches, env \in Envs, root \in Roots :
          StartActionsCall(paths, env, root)
    \/ ResolveEnter
    \/ ExpandFind
    \/ ExpandReplace
    \/ ResolveFinish
    \/ \E spawned \in BOOLEAN : LaunchResolved(spawned)
    \/ StartActionsDone

(***************************************************************************)
(* stop() of the probes (platform/posix_shell.rs, platform/windows_etw.rs).*)
(* The shell probe and the ETW probe are modelled side by side.  Removing  *)
(* a file that exists is taken to succeed.                                 *)
(***************************************************************************)
\* total number of stop() calls in one run
MaxStops == 2

ProbeKinds == {"posix_shell", "windows_etw"}

\* what stop() of the shell probe reads and writes
ShellProbeState ==
    [socket_file |-> socket_file, socket_path_file |-> socket_path_file,
     active_sessions |-> active_sessions, result |-> "none"]

\* a stop() that removes the socket file without looking whether it exists
\* and returns the error of remove_file
PosixShellStopUnchecked(p) ==
    IF ~p.socket_file THEN [p EXCEPT !.result = "Err"]
    ELSE [p EXCEPT !.socket_file = FALSE, !.socket_path_file = FALSE,
                   !.active_sessions = [s \in Sessions |-> None],
                   !.result = "Ok"]

\* PosixShellProbe::stop: remove the socket file and the socket path file
\* if they exist, clear the session map, return Ok
PosixShellStop(p) ==
    [p EXCEPT !.socket_file = IF @ THEN FALSE ELSE @,
              !.socket_path_file = IF @ THEN FALSE ELSE @,
              !.active_sessions = [s \in Sessions |-> None],
              !.result = "Ok"]

\* WindowsEtwProbe::stop: take the trace out of the handle and stop it if
\* there is one, return Ok
WindowsEtwStop(handle) == [trace_handle |-> None, result |-> "Ok"]

\* probe.stop() is called; the connection handlers keep running
StopCall(kind) ==
    /\ Len(stops) < MaxStops
    /\ IF kind = "posix_shell"
       THEN LET p == PosixShellStop(ShellProbeState)
            IN  /\ socket_file' = p.socket_file
                /\ socket_path_file' = p.socket_path_file
                /\ active_sessions' = p.active_sessions
                /\ stops' = Append(stops, [kind |-> kind, result |-> p.result])
                /\ UNCHANGED trace_handle
       ELSE LET w == WindowsEtwStop(trace_handle)
            IN  /\ trace_handle' = w.trace_handle
                /\ stops' = Append(stops, [kind |-> kind, result |-> w.result])
                /\ UNCHANGED <<socket_file, socket_path_file, active_sessions>>
    /\ UNCHANGED <<counter, conn, emitted, allocated, reads>>
    /\ UNCHANGED <<supervisorVars, watcherVars, launchVars, lockVars,
                   loopVars, matchVars, etwVars,
                   fileVars>>

\* the shell probe's handlers with stop() called at any moment
StopNext ==
    \/ ProbeNext
    \/ \E kind \in ProbeKinds : StopCall(kind)

(***************************************************************************)
(* The locks of the orchestrator (action_orchestrator.rs).  Each call is   *)
(* the sequence of lock operations it performs, in program order; which    *)
(* branch a call takes is left open.                                       *)
(***************************************************************************)
Acquire(l) == <<"acquire", l>>

Release(l) == <<"release", l>>

\* a start_action whose guard of the single-instance set lives to the end
\* of the function
start_action_locks_guard_kept(single_instance, stored) ==
    (IF single_instance THEN <<Acquire("running_single_instance_actions")>> ELSE <<>>)
    \o (IF stored THEN <<Acquire("active_actions"), Release("active_actions")>>
        ELSE <<>>)
    \o (IF single_instance THEN <<Release("running_single_instance_actions")>> ELSE <<>>)

\* start_action: the guard of the single-instance set lives in the if
\* block; start_executable_action locks active_actions to store the child.
\* stored: the action is executable, not skipped, and its spawn succeeded
start_action_locks(single_instance, stored) ==
    (IF single_instance
     THEN <<Acquire("running_single_instance_actions"),
            Release("running_single_instance_actions")>>
     ELSE <<>>)
    \o (IF stored THEN <<Acquire("active_actions"), Release("active_actions")>>
        ELSE <<>>)

\* finish_action: the guard of active_actions lives to the end of the
\* function; found: the pid has an entry
finish_action_locks(found) ==
    <<Acquire("active_actions")>>
    \o (IF found
        THEN <<Acquire("running_single_instance_actions"),
               Release("running_single_instance_actions")>>
        ELSE <<>>)
    \o <<Release("active_actions")>>

\* shutdown: the guard of active_actions lives to the end of the function
shutdown_locks ==
    <<Acquire("active_actions"),
      Acquire("running_single_instance_actions"),
      Release("running_single_instance_actions"),
      Release("active_actions")>>

\* the calls a task may make, those that take no lock left out
Calls ==
    {[call |-> "start_action", program |-> start_action_locks(si, st)] :
        si \in BOOLEAN, st \in BOOLEAN}
    \cup {[call |-> "finish_action", program |-> finish_action_locks(f)] :
            f \in BOOLEAN}
    \cup {[call |-> "shutdown", program |-> shutdown_locks]}

\* task t calls the orchestrator
CallBegin(t, c) ==
    /\ task[t].call = "none"
    /\ c.program # <<>>
    /\ task' = [task EXCEPT ![t] = [call |-> c.call, program |-> c.program,
                                    pos |-> 1, held |-> <<>>]]
    /\ UNCHANGED holder
    /\ UNCHANGED <<supervisorVars, shellVars, watcherVars, launchVars, stopVars,
                   loopVars, matchVars, etwVars,
                   fileVars>>

Busy(t) == task[t].call # "none"

NextOp(t) == task[t].program[task[t].pos]

\* write().await completes only while nobody holds the lock
CanStep(t) ==
    /\ Busy(t)
    /\ NextOp(t)[1] = "acquire" => holder[NextOp(t)[2]] = 0

RECURSIVE Without(_, _)
Without(seq, x) ==
    IF seq = <<>> THEN <<>>
    ELSE IF Head(seq) = x THEN Without(Tail(seq), x)
    ELSE <<Head(seq)>> \o Without(Tail(seq), x)

\* task t performs its next lock operation; after the last one the call
\* returns
LockStep(t) ==
    /\ CanStep(t)
    /\ LET op == NextOp(t)
           held == IF op[1] = "acquire" THEN Append(task[t].held, op[2])
                   ELSE Without(task[t].held, op[2])
       IN  /\ holder' = [holder EXCEPT ![op[2]] = IF op[1] = "acquire" THEN t ELSE 0]
           /\ task' = [task EXCEPT ![t] =
                         IF task[t].pos = Len(task[t].program)
                         THEN IdleTask
                         ELSE [@ EXCEPT !.pos = @ + 1, !.held = held]]
    /\ UNCHANGED <<supervisorVars, shellVars, watcherVars, launchVars, stopVars,
                   loopVars, matchVars, etwVars,
                   fileVars>>

\* concurrent calls of start_action, finish_action and shutdown
LockNext ==
    \/ \E t \in Tasks, c \in Calls : CallBegin(t, c)
    \/ \E t \in Tasks : LockStep(t)

(***************************************************************************)
(* The supervisor's loop, statement by statement (main.rs).  handling      *)
(* holds the event whose handler body is running and the position in it;   *)
(* history records, with the number of the event, when a handling begins,  *)
(* inserts an ActiveAction, runs finish_action and ends.                   *)
(***************************************************************************)
\* a loop whose select polls again while a handler body is still running,
\* as it would with each handling spawned as a task
AtSelectDetached(h) == TRUE

\* select! runs the body of the branch that completed, awaits included, to
\* its end before the loop comes back to the select
AtSelect(h) == h.pc = "select"

Entry(op, n) == [op |-> op, n |-> n]

\* lifecycle_rx.recv() returns Ok(event): the body of its arm begins
SupRecv ==
    /\ LoopRunning
    /\ AtSelect(handling)
    /\ ~lagged
    /\ channel # <<>>
    /\ handling' = [IdleHandling EXCEPT
                       !.pc = IF Head(channel).tag = "Started"
                              THEN "match" ELSE "finish",
                       !.ev = Some(Head(channel))]
    /\ channel' = Tail(channel)
    /\ dispatched' = dispatched + 1
    /\ history' = Append(history, Entry("begin", dispatched + 1))
    /\ UNCHANGED <<shellVars, watcherVars, launchVars, stopVars, lockVars,
                   matchVars, etwVars,
                   fileVars>>
    /\ UNCHANGED <<config, cached_glob_data, lagged, sent, active_actions,
                   running_single_instance_actions, children, pc, step,
                   shutdownCalled, leftBy, draining, syncWait,
                   shutdownReturned, probeStopped, lastBatch>>

\* Started: config.read(), match_command; an empty result ends the body
SupMatch ==
    /\ handling.pc = "match"
    /\ LET ev == Unwrap(handling.ev)
           actions == match_command(cached_glob_data, ev.command, config)
       IN  /\ cached_glob_data' = CacheAfterMatch(cached_glob_data, config)
           /\ IF actions = <<>>
              THEN /\ handling' = IdleHandling
                   /\ history' = Append(history, Entry("end", dispatched))
              ELSE /\ handling' = [handling EXCEPT !.pc = "start",
                                                   !.actions = actions,
                                                   !.i = 1]
                   /\ UNCHANGED history
    /\ UNCHANGED <<shellVars, watcherVars, launchVars, stopVars, lockVars,
                   matchVars, etwVars,
                   fileVars>>
    /\ UNCHANGED <<config, channel, lagged, sent, active_actions,
                   running_single_instance_actions, children, pc, step,
                   shutdownCalled, leftBy, draining, syncWait,
                   shutdownReturned, probeStopped, dispatched, lastBatch>>

\* start_actions: one turn of its loop, start_action(action, event).await
SupStartAction(ok) ==
    /\ handling.pc = "start"
    /\ handling.i <= Len(handling.actions)
    /\ LET ev == Unwrap(handling.ev)
           st == start_action(OrchestratorState, handling.actions[handling.i],
                              ev.pid, ok)
       IN  /\ Len(st.children) <= MaxChildren
           /\ active_actions' = st.active
           /\ running_single_instance_actions' = st.running
           /\ children' = st.children
           /\ handling' = [handling EXCEPT !.i = @ + 1,
                                           !.errors = @ + st.errors]
           /\ history' = IF st.spawned # <<>>
                         THEN Append(history, Entry("insert", dispatched))
                         ELSE history
    /\ UNCHANGED <<shellVars, watcherVars, launchVars, stopVars, lockVars,
                   matchVars, etwVars,
                   fileVars>>
    /\ UNCHANGED <<config, cached_glob_data, channel, lagged, sent, pc, step,
                   shutdownCalled, leftBy, draining, syncWait,
                   shutdownReturned, probeStopped, dispatched, lastBatch>>

\* start_actions has returned: log its error, the body ends
SupStartDone ==
    /\ handling.pc = "start"
    /\ handling.i > Len(handling.actions)
    /\ pc' = IF pc = "loop" THEN AfterStartActions(handling.errors) ELSE pc
    /\ handling' = IdleHandling
    /\ history' = Append(history, Entry("end", dispatched))
    /\ UNCHANGED <<shellVars, watcherVars, launchVars, stopVars, lockVars,
                   matchVars, etwVars,
                   fileVars>>
    /\ UNCHANGED <<config, cached_glob_data, channel, lagged, sent,
                   active_actions, running_single_instance_actions, children,
                   step, shutdownCalled, leftBy, draining, syncWait,
                   shutdownReturned, probeStopped, dispatched, lastBatch>>

\* Ended { pid }: finish_action(pid).await, the body ends
SupFinish ==
    /\ handling.pc = "finish"
    /\ finish_action(Unwrap(handling.ev).pid)
    /\ pc' = IF pc = "loop" THEN AfterFinishAction(Unwrap(handling.ev).pid)
             ELSE pc
    /\ handling' = IdleHandling
    /\ history' = history \o <<Entry("finish", dispatched),
                               Entry("end", dispatched)>>
    /\ UNCHANGED <<shellVars, watcherVars, launchVars, stopVars, lockVars,
                   matchVars, etwVars,
                   fileVars>>
    /\ UNCHANGED <<config, cached_glob_data, channel, lagged, sent, step,
                   shutdownCalled, leftBy, draining, syncWait,
                   shutdownReturned, probeStopped, dispatched, lastBatch>>

\* lifecycle_rx.recv() returns Err(e) at the select
SupRecvError == AtSelect(handling) /\ RecvError

\* signal::ctrl_c() completes at the select
SupInterrupt == AtSelect(handling) /\ Interrupt

SupervisorNext ==
    \/ \E ev \in LifecycleEvents : ProbeSend(ev)
    \/ SupRecv
    \/ SupMatch
    \/ \E ok \in BOOLEAN : SupStartAction(ok)
    \/ SupStartDone
    \/ SupFinish
    \/ SupRecvError
    \/ SupInterrupt
    \/ ShutdownBegin
    \/ ShutdownTerminate
    \/ SyncExited
    \/ SyncTimeout
    \/ ShutdownReturn
    \/ ProbeStop
    \/ Exit
    \/ \E c \in ChildIds : ChildExit(c)

(***************************************************************************)
(* match_command, statement by statement (rule_engine.rs), for callers     *)
(* that share the rule engine.  from records the fingerprint stored in the *)
(* cached record the answer was computed with.                             *)
(***************************************************************************)
\* the match_command calls a caller makes
MaxMatches == 2

\* what a match_command call leaves alone
MatchFrame ==
    /\ UNCHANGED <<config, channel, lagged, sent, active_actions,
                   running_single_instance_actions, children, pc, step,
                   shutdownCalled, leftBy, draining, syncWait,
                   shutdownReturned, probeStopped, dispatched, lastBatch>>
    /\ UNCHANGED <<shellVars, watcherVars, launchVars, stopVars, lockVars,
                   loopVars, etwVars, fileVars>>

\* match_command(command, cfg) is called: the fingerprint of cfg is taken
MatchCall(t, command, cfg) ==
    /\ matching[t].pc \in {"idle", "done"}
    /\ matching[t].n < MaxMatches
    /\ matching' = [matching EXCEPT ![t] =
                       [pc |-> "check", command |-> command, cfg |-> Some(cfg),
                        config_hash |-> calculate_config_hash(cfg),
                        answer |-> <<>>, from |-> None, n |-> @.n + 1]]
    /\ UNCHANGED cached_glob_data
    /\ MatchFrame

\* the first read of the cache: a record with the fingerprint of the
\* argument answers the call, anything else goes on to the rebuild
MatchCheck(t) ==
    /\ matching[t].pc = "check"
    /\ matching' = [matching EXCEPT ![t] =
          IF cached_glob_data # None
             /\ Unwrap(cached_glob_data).config_hash = matching[t].config_hash
          THEN [@ EXCEPT !.pc = "done",
                         !.answer = MatchWith(Unwrap(cached_glob_data),
                                              matching[t].command),
                         !.from = Some(Unwrap(cached_glob_data).config_hash)]
          ELSE [@ EXCEPT !.pc = "rebuild"]]
    /\ UNCHANGED cached_glob_data
    /\ MatchFrame

\* rebuild_cache: Ok of builder.build() stores the new record under the
\* write lock, Err logs and leaves the cache as it is
MatchRebuild(t, built) ==
    /\ matching[t].pc = "rebuild"
    /\ cached_glob_data' =
          IF built
          THEN Some(rebuild_cache(Unwrap(matching[t].cfg), matching[t].config_hash))
          ELSE cached_glob_data
    /\ matching' = [matching EXCEPT ![t].pc = "reread"]
    /\ MatchFrame

\* the second read of the cache: whatever record is cached answers the
\* call, no record answers with the empty list
MatchReread(t) ==
    /\ matching[t].pc = "reread"
    /\ matching' = [matching EXCEPT ![t] =
          IF cached_glob_data # None
          THEN [@ EXCEPT !.pc = "done",
                         !.answer = MatchWith(Unwrap(cached_glob_data),
                                              matching[t].command),
                         !.from = Some(Unwrap(cached_glob_data).config_hash)]
          ELSE [@ EXCEPT !.pc = "done"]]
    /\ UNCHANGED cached_glob_data
    /\ MatchFrame

MatchNext ==
    \/ \E t \in Callers, command \in Commands, cfg \in LoadableConfigs :
          MatchCall(t, command, cfg)
    \/ \E t \in Callers : MatchCheck(t)
    \/ \E t \in Callers, built \in BOOLEAN : MatchRebuild(t, built)
    \/ \E t \in Callers : MatchReread(t)

(***************************************************************************)
(* Config::load on a config file that the user edits or removes.           *)
(***************************************************************************)
\* the Config::load calls and the edits followed
MaxLoads == 2
MaxEdits == 2

\* what Config::load and an edit of the file leave alone
FileFrame ==
    /\ UNCHANGED <<supervisorVars, shellVars, watcherVars, launchVars,
                   stopVars, lockVars, loopVars, matchVars, etwVars>>

Edits == Cardinality({i \in 1..Len(loads) : loads[i].op = "edit"})

\* the user writes, replaces or removes the config file
FileEdited(content) ==
    /\ Edits < MaxEdits
    /\ content # config_file
    /\ config_file' = content
    /\ loads' = Append(loads, [op |-> "edit", found |-> TRUE,
                               result |-> None, file |-> content])
    /\ FileFrame

\* Config::load(path)
ConfigLoad(writable) ==
    /\ Len(loads) - Edits < MaxLoads
    /\ (config_file # None => writable)
    /\ LET out == ConfigLoadResult(config_file, writable)
       IN  /\ config_file' = out.file
           /\ loads' = Append(loads, [op |-> "load", found |-> out.found,
                                      result |-> out.result, file |-> out.file])
    /\ FileFrame

LoadNext ==
    \/ \E content \in FileContents : FileEdited(content)
    \/ \E writable \in BOOLEAN : ConfigLoad(writable)

(***************************************************************************)
(* The kernel probe (platform/windows_etw.rs): start() with the thread     *)
(* that starts the tracing session, the callback on the session's records, *)
(* and stop().                                                             *)
(***************************************************************************)
\* the records the callback is followed on
MaxRecords == 3

\* the command line the out-of-band lookup leaves for an unknown process
UnknownCommand == <<"<unknown>">>

\* the command lines get_proc_params may return; "NUL" is a null character
CommandLines == { <<"a", "b">>, <<"a", "NUL", "b">> }

\* the records of the session: the event id, whether the schema is found,
\* the ProcessID field as parsed (None: try_parse fails), and what the
\* lookup of the command line returns (None: Err)
EtwRecords ==
    [event_id : {1, 2, 3}, schema : BOOLEAN,
     pid : {None} \cup {Some(p) : p \in Pids},
     lookup : {None} \cup {Some(c) : c \in CommandLines}]

\* str::replace('\0', "")
RECURSIVE RemoveNulls(_)
RemoveNulls(str) ==
    IF str = <<>> THEN <<>>
    ELSE (IF Head(str) = "NUL" THEN <<>> ELSE <<Head(str)>>)
         \o RemoveNulls(Tail(str))

\* a handler that drops the record when the lookup of the command line fails
handle_process_start_needs_lookup(record) ==
    IF ~record.schema \/ record.pid = None \/ record.lookup = None THEN <<>>
    ELSE <<Started(Unwrap(record.pid), RemoveNulls(Unwrap(record.lookup)))>>

\* handle_process_start: the events sent for a record with event id 1
handle_process_start(record) ==
    IF ~record.schema THEN <<>>
    ELSE IF record.pid = None THEN <<>>
    ELSE <<Started(Unwrap(record.pid),
                   RemoveNulls(IF record.lookup = None THEN UnknownCommand
                               ELSE Unwrap(record.lookup)))>>

\* handle_process_exit: the events sent for a record with event id 2
handle_process_exit(record) ==
    IF ~record.schema THEN <<>>
    ELSE IF record.pid = None THEN <<>>
    ELSE <<Ended(Unwrap(record.pid))>>

\* process_event_callback
process_event_callback(record) ==
    CASE record.event_id = 1 -> handle_process_start(record)
      [] record.event_id = 2 -> handle_process_exit(record)
      [] OTHER -> <<>>

\* what the kernel probe leaves alone
EtwFrame ==
    /\ UNCHANGED <<supervisorVars, shellVars, watcherVars, launchVars,
                   stopVars, lockVars, loopVars, matchVars, fileVars>>

\* start(): spawn the thread, then sleep
EtwStart ==
    /\ kernel_probe.start = "none"
    /\ kernel_probe' = [kernel_probe EXCEPT !.start = "sleeping",
                                            !.thread = "spawned"]
    /\ EtwFrame

\* the thread: start_and_process() starts the session, or fails and the
\* thread returns
EtwThreadStartTrace(ok) ==
    /\ kernel_probe.thread = "spawned"
    /\ kernel_probe' = [kernel_probe EXCEPT
                           !.thread = IF ok THEN "started" ELSE "failed",
                           !.session = ok]
    /\ EtwFrame

\* the thread: store the trace in trace_handle under the mutex
EtwThreadStore ==
    /\ kernel_probe.thread = "started"
    /\ kernel_probe' = [kernel_probe EXCEPT !.thread = "stored",
                                            !.handle = Some("CommandSidekickTrace")]
    /\ EtwFrame

\* start(): the sleep is over; Err when trace_handle is None, Ok otherwise
EtwStartCheck ==
    /\ kernel_probe.start = "sleeping"
    /\ kernel_probe' = [kernel_probe EXCEPT
                           !.start = IF kernel_probe.handle = None
                                     THEN "Err" ELSE "Ok"]
    /\ EtwFrame

\* the session delivers a record to the callback
EtwRecord(record) ==
    /\ kernel_probe.session
    /\ kernel_probe.records < MaxRecords
    /\ kernel_probe' = [kernel_probe EXCEPT
                           !.records = @ + 1,
                           !.last = Some(record),
                           !.sent = @ \o process_event_callback(record)]
    /\ EtwFrame

\* stop(), called once start() has returned: take the trace out of the
\* handle and stop it if there is one
EtwStop ==
    /\ kernel_probe.start \in {"Ok", "Err"}
    /\ kernel_probe.stop = "none"
    /\ LET w == WindowsEtwStop(kernel_probe.handle)
       IN  kernel_probe' = [kernel_probe EXCEPT
                               !.stop = w.result,
                               !.released = kernel_probe.handle # None,
                               !.handle = w.trace_handle,
                               !.session = IF kernel_probe.handle # None
                                           THEN FALSE ELSE @]
    /\ EtwFrame

EtwNext ==
    \/ EtwStart
    \/ \E ok \in BOOLEAN : EtwThreadStartTrace(ok)
    \/ EtwThreadStore
    \/ EtwStartCheck
    \/ \E record \in EtwRecords : EtwRecord(record)
    \/ EtwStop

(***************************************************************************)
(* Specifications.                                                         *)
(***************************************************************************)
Next ==
    \/ \E ev \in LifecycleEvents : ProbeSend(ev)
    \/ HandleStarted
    \/ HandleEnded
    \/ RecvError
    \/ Interrupt
    \/ ShutdownBegin
    \/ ShutdownTerminate
    \/ SyncExited
    \/ SyncTimeout
    \/ ShutdownReturn
    \/ ProbeStop
    \/ Exit
    \/ \E c \in ChildIds : ChildExit(c)
    \/ \E c \in ChildIds : TimerFire(c)

Spec == Init /\ [][Next]_vars

\* the shell probe on its own
ProbeSpec == Init /\ [][ProbeNext]_vars

\* the rule engine and the orchestrator under hot reload
ReloadSpec == Init /\ [][ReloadNext]_vars

\* the shell probe while stop() is called
StopSpec == Init /\ [][StopNext]_vars

\* the orchestrator's locks under concurrent calls
LockSpec == Init /\ [][LockNext]_vars

\* the supervisor's loop with the handler bodies in steps; the kill timers
\* of terminated children are left to Spec
SupervisorSpec == Init /\ [][SupervisorNext]_vars

\* match_command called by tasks that share the rule engine
MatchSpec == Init /\ [][MatchNext]_vars

\* Config::load and the config file
LoadSpec == Init /\ [][LoadNext]_vars

\* the kernel probe
EtwSpec == Init /\ [][EtwNext]_vars

\* start_actions with its path resolution, step by step
LaunchSpec == Init /\ [][LaunchNext]_vars

\* A call of start_actions runs on the caller's task without an await point
\* up to the spawn, so each of its steps is taken once it is enabled; when
\* start_actions is called is up to the caller.
FairLaunchSpec ==
    /\ LaunchSpec
    /\ WF_vars(ResolveEnter \/ ExpandFind \/ ExpandReplace \/ ResolveFinish
               \/ (\E spawned \in BOOLEAN : LaunchResolved(spawned))
               \/ StartActionsDone)

\* The tokio runtime runs a task whose sleep is over for as long as the
\* runtime is alive (each such task fires once, so fairness for the tasks
\* together is fairness for each), and main, once out of the loop, runs its
\* cleanup to the end.  The interrupt, the probe's events and the children's
\* own exits are up to the environment.
FairSpec ==
    /\ Spec
    /\ WF_vars(\E c \in 1..MaxChildren : TimerFire(c))
    /\ WF_vars(ShutdownBegin \/ ShutdownTerminate \/ SyncExited \/ SyncTimeout
               \/ ShutdownReturn \/ ProbeStop \/ Exit)

(***************************************************************************)
(* Claims.                                                                 *)
(***************************************************************************)
ActionsOf(cfg) == UNION {SeqToSet(cfg.rules[r].action) : r \in 1..Len(cfg.rules)}

AllActions == UNION {ActionsOf(cfg) : cfg \in Configs}

RuleMatches(rule, command) ==
    \E j \in 1..Len(rule.command) :
        GlobCompiles(rule.command[j]) /\ GlobMatch(rule.command[j], command)

\* the (rule, action) bindings of action A that a command triggers
Bindings(cfg, command, A) ==
    UNION { {<<r, a>> : a \in {i \in 1..Len(cfg.rules[r].action) :
                                  cfg.rules[r].action[i] = A}} :
            r \in {q \in 1..Len(cfg.rules) : RuleMatches(cfg.rules[q], command)} }

\* the children the last Started event spawned for action A
SpawnedFor(A) ==
    {i \in 1..Len(lastBatch.spawned) : children[lastBatch.spawned[i]].action = A}

\* C1: when every spawn of a Started event succeeded, each non-single-instance
\* executable action of each rule the command matches got exactly one child
\* for that event, however many patterns of the rule the command matches.
C1_OneChildPerBinding ==
    (lastBatch.n > 0 /\ lastBatch.errors = 0) =>
        \A A \in AllActions :
            (A.type = "exec" /\ ~A.single_instance) =>
                Cardinality(SpawnedFor(A))
                    = Cardinality(Bindings(lastBatch.cfg, lastBatch.command, A))

\* C2: at every moment at most one live child exists per single-instance
\* key, a child being live from its spawn until it has exited or been killed.
C2_OneLiveChildPerKey ==
    \A c1, c2 \in ChildIds :
        ( /\ Live(c1) /\ Live(c2)
          /\ is_single_instance(children[c1].action)
          /\ is_single_instance(children[c2].action)
          /\ get_action_key(children[c1].action) = get_action_key(children[c2].action) )
        => c1 = c2

ActiveChildren == UNION {SeqToSet(active_actions[p]) : p \in Pids}

ExecKeys == {get_action_key(A) : A \in {B \in AllActions : B.type = "exec"}}

\* C3: between operations, the key of every single-instance ActiveAction in
\* active_actions is in running_single_instance_actions, and every key of an
\* executable action in that set belongs to some ActiveAction in active_actions.
C3_KeysMatchActiveActions ==
    ~(shutdownCalled /\ ~shutdownReturned) =>
        /\ \A c \in ActiveChildren :
              is_single_instance(children[c].action) =>
                  get_action_key(children[c].action) \in running_single_instance_actions
        /\ \A k \in running_single_instance_actions \cap ExecKeys :
              \E c \in ActiveChildren : get_action_key(children[c].action) = k

\* C4: an Ended(pid) removes all ActiveActions of the pid in one step and
\* closes the stdin of each, and each of them eventually terminates (it
\* exits on its own or is force-killed).
C4_EndedRemovesAndTerminates ==
    /\ [][ (dispatched' = dispatched + 1 /\ Head(channel).tag = "Ended") =>
             /\ active_actions'[Head(channel).pid] = <<>>
             /\ \A c \in SeqToSet(active_actions[Head(channel).pid]) :
                   children'[c].stdin = "closed" ]_vars
    /\ \A c \in 1..MaxChildren :
          (c \in ChildIds /\ children[c].closedBy = "finish_action")
              ~> (c \in ChildIds /\ ~Live(c))

\* C5: a child whose stdin the daemon has closed, by finish_action or by
\* shutdown, has eventually exited or been sent the forced kill.
C5_KillAfterGrace ==
    \A c \in 1..MaxChildren :
        []( (c \in ChildIds /\ children[c].stdin = "closed")
              => <>(c \in ChildIds /\ children[c].status \in {"exited", "killed"}) )

\* C6: a force-killed child had its stdin closed by the daemon before, and a
\* stdin closed by finish_action was closed for the Ended event of the very
\* pid whose Started event spawned the child.
C6_CloseBeforeKill ==
    \A c \in ChildIds :
        /\ children[c].status = "killed" =>
              (children[c].stdin = "closed" /\ children[c].closedBy # "none")
        /\ children[c].closedBy = "finish_action" =>
              children[c].closePid = children[c].pid

C6_Witness ==
    \E c \in ChildIds :
        /\ children[c].status = "killed"
        /\ children[c].closedBy = "finish_action"
        /\ children[c].timer = "fired"

\* C7: no child's stdin is closed twice, a child whose termination has
\* started is no longer in active_actions, and once shutdown() has returned
\* every child ever stored has had its stdin closed exactly once.
C7_StdinClosedOnce ==
    /\ \A c \in ChildIds :
          /\ children[c].closes <= 1
          /\ children[c].closes = 1 => c \notin ActiveChildren
    /\ shutdownReturned => \A c \in ChildIds : children[c].closes = 1

C7_Witness ==
    /\ shutdownReturned
    /\ \E c \in ChildIds : children[c].closedBy = "finish_action"
    /\ \E c \in ChildIds : children[c].closedBy = "shutdown"

\* C8: the supervisor does not leave its event loop because the receiver
\* lagged.
C8_LagDoesNotEndLoop == pc # "loop" => leftBy # "Lagged"

\* C9: handling a lifecycle event never ends the event loop, whether
\* start_actions or finish_action returned an error or not.
C9_HandlerErrorsDoNotEndLoop ==
    [][ dispatched' = dispatched + 1 => pc' = "loop" ]_vars

C9_Witness ==
    /\ lastBatch.errors > 0
    /\ dispatched > lastBatch.n
    /\ pc = "loop"

\* C10: shutdown() is called only after the loop is left, probe.stop() only
\* after shutdown() has returned, main ends only after both, and no event is
\* dispatched once the loop is left, whatever ended the loop.
C10_ShutdownOrdering ==
    /\ [](shutdownCalled => pc # "loop")
    /\ [](probeStopped => shutdownReturned)
    /\ [](pc = "done" => (shutdownReturned /\ probeStopped))
    /\ [][ pc # "loop" => dispatched' = dispatched ]_vars

C10_Witness ==
    /\ pc = "done"
    /\ leftBy = "interrupt"
    /\ channel # <<>>
    /\ \E c \in ChildIds : children[c].closedBy = "shutdown"

(***************************************************************************)
(* Claims about the shell probe, under ProbeSpec.                          *)
(***************************************************************************)
EmittedBefore(i, tag, pid) ==
    {j \in 1..i : emitted[j].tag = tag /\ emitted[j].pid = pid}

\* C11: the probe never emits Ended(pid) before the matching Started(pid)
\* and emits at most one Ended per Started: up to every Ended of a pid, the
\* events emitted hold more Started of that pid than earlier Ended of it.
C11_StartedBeforeEnded ==
    \A i \in 1..Len(emitted) :
        emitted[i].tag = "Ended" =>
            Cardinality(EmittedBefore(i, "Ended", emitted[i].pid))
                <= Cardinality(EmittedBefore(i, "Started", emitted[i].pid))

\* C12: every synthetic pid of a Started event is at least the counter's
\* initial value, and no two Started events of a run carry the same pid.
C12_SyntheticPidsUnique ==
    \A i \in 1..Len(emitted) :
        emitted[i].tag = "Started" =>
            /\ emitted[i].pid >= PidBase
            /\ \A j \in 1..Len(emitted) :
                  (emitted[j].tag = "Started" /\ emitted[j].pid = emitted[i].pid)
                      => j = i

\* connection c handles a CommandEnd message in this step
HandlesCommandEnd(c) ==
    /\ conn[c].pc = "msg"
    /\ conn[c].pending # <<>>
    /\ ParseShellMessage(Head(conn[c].pending)) # None
    /\ Unwrap(ParseShellMessage(Head(conn[c].pending))).event_type = "CommandEnd"
    /\ conn'[c].pending = Tail(conn[c].pending)

\* C13: a CommandEnd of a session with a mapping removes the mapping and
\* emits one Ended carrying the stored pid, which was allocated for a
\* CommandStart of that session; a CommandEnd of a session without a mapping
\* emits nothing and leaves the session map as it was.
C13_CommandEndUsesStoredPid ==
    [][ \A c \in Conns :
          HandlesCommandEnd(c) =>
            LET S == Unwrap(ParseShellMessage(Head(conn[c].pending))).session_id
            IN  IF active_sessions[S] # None
                THEN /\ active_sessions' = [active_sessions EXCEPT ![S] = None]
                     /\ emitted' = Append(emitted, Ended(Unwrap(active_sessions[S])))
                     /\ <<Unwrap(active_sessions[S]), S>> \in allocated
                ELSE /\ active_sessions' = active_sessions
                     /\ emitted' = emitted ]_vars

C13_Witness ==
    /\ \E c \in Conns : conn[c].end_result = "sent"
    /\ \E c \in Conns : conn[c].end_result = "unknown"
    /\ \E i \in 1..Len(emitted) : emitted[i].tag = "Ended"

\* C14: a well-formed record read from a connection is extracted as a
\* complete message by the read that delivered it, whatever malformed lines
\* the connection delivered before.
C14_RecordAfterMalformedExtracted ==
    \A c \in Conns :
        ParseShellMessage(Trim(conn[c].line)) # None =>
            conn[c].messages = <<Trim(conn[c].line)>>

(***************************************************************************)
(* Claims about hot reload and the rule engine, under ReloadSpec.          *)
(***************************************************************************)
\* the actions a rule contributes: its action list once per pattern that
\* compiles and matches, in the order of the patterns
RECURSIVE ExpectedOfRule(_, _, _)
ExpectedOfRule(rule, command, j) ==
    IF j > Len(rule.command) THEN <<>>
    ELSE (IF GlobCompiles(rule.command[j]) /\ GlobMatch(rule.command[j], command)
          THEN rule.action ELSE <<>>)
         \o ExpectedOfRule(rule, command, j + 1)

RECURSIVE ExpectedOfRules(_, _, _)
ExpectedOfRules(rules, command, i) ==
    IF i > Len(rules) THEN <<>>
    ELSE ExpectedOfRule(rules[i], command, 1) \o ExpectedOfRules(rules, command, i + 1)

ExpectedActions(cfg, command) == ExpectedOfRules(cfg.rules, command, 1)

\* C15: a reload whose parse fails leaves the stored Config and the pending
\* writes as they were and sends no change notification.
C15_FailedReloadKeepsConfig ==
    [][ loadErrors' = loadErrors + 1 =>
          /\ config' = config
          /\ pendingWrites' = pendingWrites
          /\ notified' = notified ]_vars

C15_Witness ==
    /\ loadErrors = 1
    /\ notified = 0
    /\ lastBatch.n > 0
    /\ lastBatch.cfg = config

C19_CacheValidity ==
    lastBatch.n > 0 =>
        /\ lastBatch.rebuilt <=>
              \/ lastBatch.cachedBefore = None
              \/ Unwrap(lastBatch.cachedBefore).config_hash
                    # HashConfig(lastBatch.cfg)
        /\ ~lastBatch.rebuilt => cached_glob_data = lastBatch.cachedBefore
        /\ cached_glob_data # None
        /\ Unwrap(cached_glob_data).config_hash = HashConfig(lastBatch.cfg)

C19_Witness ==
    /\ lastBatch.n > 2
    /\ ~lastBatch.rebuilt
    /\ lastBatch.cfg = Config2

HasBadGlob(cfg) ==
    \E r \in 1..Len(cfg.rules) : \E j \in 1..Len(cfg.rules[r].command) :
        ~GlobCompiles(cfg.rules[r].command[j])

SpawnedPositions ==
    {i \in 1..Len(lastBatch.outcomes) : lastBatch.outcomes[i] = "spawned"}

\* the position in the batch of the k-th action that was spawned
PositionOfSpawn(k) ==
    CHOOSE i \in SpawnedPositions :
        Cardinality({j \in SpawnedPositions : j <= i}) = k

\* When resolve_action_path returns for every action, start_actions
\* processes every action of the batch in order, whether an earlier spawn
\* failed or not; it returns Ok exactly when no action returned an error,
\* and a skipped single-instance action is no error.
BestEffortOverSpawnFailures ==
    lastBatch.n > 0 =>
        /\ Len(lastBatch.outcomes) = Len(lastBatch.actions)
        /\ (lastBatch.result = "Ok") <=>
              (\A i \in 1..Len(lastBatch.outcomes) : lastBatch.outcomes[i] # "error")
        /\ \A i \in 1..Len(lastBatch.outcomes) :
              lastBatch.outcomes[i] = "skipped" =>
                  is_single_instance(lastBatch.actions[i])
        /\ Len(lastBatch.spawned) = Cardinality(SpawnedPositions)
        /\ \A k \in 1..Len(lastBatch.spawned) :
              children[lastBatch.spawned[k]].action
                  = lastBatch.actions[PositionOfSpawn(k)]

\* C21: a start_actions call attempts every action of its batch, whatever
\* failed for the earlier ones (spawn failure, missing path, unresolved
\* environment variable), then returns, Ok exactly when no action returned
\* an error.
C21_EveryActionAttempted ==
    (launch.pc = "resolve" /\ launch.i = 1) ~>
        ( /\ launch.pc = "returned"
          /\ Len(launch.outcomes) = Len(launch.paths)
          /\ (launch.ret = "Ok") <=>
                (\A k \in 1..Len(launch.outcomes) : launch.outcomes[k] # "error") )

\* the names of the well-formed placeholders ${NAME} of a path
Placeholders(str) ==
    {str[i + 2] : i \in {k \in 1..Len(str) :
                            /\ k + 3 <= Len(str)
                            /\ str[k] = "$" /\ str[k + 1] = "{"
                            /\ str[k + 3] = "}"}}

RootNames == {"VIBEROT_HOME", "VIBEROT_ACTIONS"}

\* the names of the placeholders whose variable is set in the environment
SetNames(env) == {n[1] : n \in {m \in DOMAIN env : env[m] # None}}

\* C22: placeholder expansion comes to an end for every path, also for one
\* that names a variable that is not set, and the expanded path holds no
\* placeholder of VIBEROT_HOME, VIBEROT_ACTIONS or a set variable any more.
C22_ExpansionTerminates ==
    /\ [](launch.pc = "expanded" =>
            Placeholders(launch.result)
                \cap (RootNames \cup SetNames(launch.env)) = {})
    /\ (launch.pc = "find") ~> (launch.pc \in {"expanded", "resolved"})

\* what C23 says of the paths whatever becomes of the project root
PathCases(path_str) ==
    /\ IsBareName(path_str) => launch.out = PathOk(path_str)
    /\ (~IsBareName(path_str) /\ launch.out.ok) =>
          /\ Placeholders(launch.result)
                \cap (RootNames \cup SetNames(launch.env)) = {}
          /\ IF IsAbsolute(launch.result)
             THEN launch.out.path = launch.result
             ELSE /\ launch.root # None
                  /\ launch.out.path
                       = Unwrap(launch.root) \o <<"/">> \o launch.result
    /\ ( /\ path_str = <<"$", "{", "VIBEROT_ACTIONS", "}", "/", "overlay">>
         /\ launch.root = Some(<<"/", "opt", "/", "viberot">>) ) =>
          launch.out = PathOk(<<"/", "opt", "/", "viberot", "/", "actions",
                                "/", "overlay">>)
    /\ ( /\ path_str = <<".", "/", "local", "/", "tool">>
         /\ launch.root = Some(<<"/", "r">>) ) =>
          launch.out = PathOk(<<"/", "r", "/", ".", "/", "local", "/", "tool">>)

\* C23 as stated: a plain name is returned unchanged whatever the root, an
\* expanded absolute path as it is, a relative one joined onto the root, and
\* without a project root every path that is not a plain name fails.
C23_PathResolutionCases ==
    launch.pc = "resolved" =>
        LET path_str == Trim(launch.paths[launch.i])
        IN  /\ PathCases(path_str)
            /\ (~IsBareName(path_str) /\ launch.root = None) => ~launch.out.ok

\* C23, amended: without a project root a path that is not a plain name
\* fails exactly when it names VIBEROT_HOME or VIBEROT_ACTIONS or its
\* expansion is relative; an absolute one that names neither is returned.
C23_PathResolutionCasesAmended ==
    launch.pc = "resolved" =>
        LET path_str == Trim(launch.paths[launch.i])
        IN  /\ PathCases(path_str)
            /\ (~IsBareName(path_str) /\ launch.root = None) =>
                  (launch.out.ok <=>
                      /\ IsAbsolute(launch.result)
                      /\ Placeholders(path_str) \cap RootNames = {})

C23_Witness ==
    /\ launch.pc = "resolved"
    /\ launch.root = None
    /\ launch.out = PathOk(<<"/", "usr", "/", "bin", "/", "tool">>)

\* C24: an action path without a directory separator, such as "python" or
\* "notepad.exe", is handed to the OS unchanged and is not joined onto the
\* project root.
C24_PlainNamesUsePathLookup ==
    launch.pc = "resolved" =>
        LET path_str == Trim(launch.paths[launch.i])
        IN  (~Contains(path_str, "/") /\ ~Contains(path_str, "\\")) =>
                launch.out = PathOk(path_str)

\* C25: once shutdown() has returned, active_actions and the single-instance
\* set are empty and every ActiveAction that was in active_actions when
\* shutdown began (every child finish_action had not taken out) has had its
\* stdin closed by shutdown and has exited within its wait or been killed;
\* the children are waited for one at a time.
C25_ShutdownPostcondition ==
    /\ shutdownReturned =>
          /\ \A p \in Pids : active_actions[p] = <<>>
          /\ running_single_instance_actions = {}
          /\ \A c \in ChildIds :
                children[c].closedBy # "finish_action" =>
                    /\ children[c].closedBy = "shutdown"
                    /\ children[c].stdin = "closed"
                    /\ children[c].timer = "syncdone"
                    /\ children[c].status \in {"exited", "killed"}
    /\ (shutdownCalled /\ ~shutdownReturned) =>
          {c \in ChildIds : children[c].closedBy = "none"} = SeqToSet(draining)
    /\ Cardinality({c \in ChildIds : children[c].timer = "sync"}) <= 1
    /\ \A c \in ChildIds : children[c].timer = "sync" => syncWait = c

C25_Witness ==
    /\ shutdownReturned
    /\ \E c1, c2 \in ChildIds :
          /\ children[c1].closedBy = "shutdown" /\ children[c1].status = "killed"
          /\ children[c2].closedBy = "shutdown" /\ children[c2].status = "exited"

NoSessions(map) == \A s \in Sessions : map[s] = None

C27_LockOrdering ==
    /\ \A t \in Tasks :
          /\ task[t].held \in
                { <<>>, <<"active_actions">>, <<"running_single_instance_actions">>,
                  <<"active_actions", "running_single_instance_actions">> }
          /\ (Busy(t) /\ NextOp(t) = Acquire("active_actions")) =>
                task[t].held = <<>>
          /\ \A l \in Locks :
                (holder[l] = t) <=> (\E k \in 1..Len(task[t].held) : task[t].held[k] = l)
    /\ (\E t \in Tasks : Busy(t)) => (\E t \in Tasks : CanStep(t))

C27_Witness ==
    \E t1, t2 \in Tasks :
        /\ t1 # t2
        /\ holder["active_actions"] = t1
        /\ holder["running_single_instance_actions"] = t2
        /\ NextOp(t1) = Acquire("running_single_instance_actions")
        /\ task[t2].call = "start_action"

SingleInstanceKeys(list) ==
    {get_action_key(children[c].action) :
        c \in {d \in SeqToSet(list) : is_single_instance(children[d].action)}}

\* C29: finish_action(pid) for a pid without entry changes neither
\* active_actions nor the single-instance set (nor any child) and returns
\* Ok; for a pid with an entry it removes that entry and the keys of that
\* pid's single-instance actions and nothing else: the entries of the other
\* pids, their keys and their children stay as they are.
C29_FinishActionFrame ==
    [][ (dispatched' = dispatched + 1 /\ Head(channel).tag = "Ended") =>
          LET pid == Head(channel).pid
              list == active_actions[pid]
          IN  /\ pc' = "loop"
              /\ list = <<>> =>
                    /\ active_actions' = active_actions
                    /\ running_single_instance_actions'
                          = running_single_instance_actions
                    /\ children' = children
              /\ list # <<>> =>
                    /\ active_actions'[pid] = <<>>
                    /\ \A q \in Pids \ {pid} :
                          /\ active_actions'[q] = active_actions[q]
                          /\ SingleInstanceKeys(active_actions[q])
                                \cap running_single_instance_actions
                                \subseteq running_single_instance_actions'
                    /\ running_single_instance_actions'
                          = running_single_instance_actions \ SingleInstanceKeys(list)
                    /\ \A c \in ChildIds \ SeqToSet(list) :
                          children'[c] = children[c]
      ]_vars

C29_Witness ==
    \E c1, c2 \in ChildIds :
        /\ children[c1].closedBy = "finish_action"
        /\ children[c1].timer = "pending"
        /\ children[c2].pid # children[c1].pid
        /\ c2 \in ActiveChildren
        /\ is_single_instance(children[c2].action)
        /\ get_action_key(children[c2].action) \in running_single_instance_actions

LuaKeys == {get_action_key(A) : A \in {B \in AllActions : B.type = "lua"}}

\* C30: start_action for a Lua action spawns no child, stores no
\* ActiveAction and leaves active_actions and the single-instance set as
\* they were, single_instance or not: no child runs a Lua action and no key
\* of a Lua action is ever in the set.
C30_LuaLeavesStateUnchanged ==
    /\ \A c \in ChildIds : children[c].action.type = "exec"
    /\ running_single_instance_actions \cap LuaKeys = {}

(***************************************************************************)
(* Claims C31..C39.                                                        *)
(***************************************************************************)
\* the positions of the batch just handled at which start_action returned
\* an error for a single-instance executable action
FailedSingleInstanceLaunches ==
    {i \in 1..Len(lastBatch'.actions) :
        /\ lastBatch'.actions[i].type = "exec"
        /\ is_single_instance(lastBatch'.actions[i])
        /\ lastBatch'.outcomes[i] = "error"}

\* C31: when start_action for a single-instance executable action returns
\* an error, running_single_instance_actions and active_actions are the
\* same as before the call: the failed launch adds no key and no
\* ActiveAction, so that a later Started event matching the action launches
\* it again.
C31_FailedLaunchLeavesState ==
    [][(dispatched' = dispatched + 1 /\ lastBatch'.n = dispatched + 1) =>
          /\ \A i \in FailedSingleInstanceLaunches :
                get_action_key(lastBatch'.actions[i])
                      \in running_single_instance_actions'
                   => get_action_key(lastBatch'.actions[i])
                          \in running_single_instance_actions
          /\ active_actions'[lastBatch'.pid] =
                active_actions[lastBatch'.pid] \o lastBatch'.spawned]_vars

\* the synthetic pids of the Started events emitted so far for session S
StartedPidsOf(S) ==
    {pid \in 0..(U32Mod - 1) :
        /\ <<pid, S>> \in allocated
        /\ \E i \in 1..Len(emitted) :
              emitted[i].tag = "Started" /\ emitted[i].pid = pid}

\* no handler is between taking a pid for session S and sending its Started
NoStartInFlight(S) ==
    \A c \in Conns :
        conn[c].pc \in {"insert", "send"} => conn[c].session_id # S

\* C32: every Started(p) the shell probe emitted for a session is closed by
\* an Ended(p) once a later CommandEnd of the session has been processed,
\* also when two CommandStart records came with no CommandEnd between them.
C32_StartedEventuallyEnded ==
    [][ \A c \in Conns :
          HandlesCommandEnd(c) =>
            LET S == Unwrap(ParseShellMessage(Head(conn[c].pending))).session_id
            IN  NoStartInFlight(S) =>
                  \A pid \in StartedPidsOf(S) :
                      \E i \in 1..Len(emitted') :
                          emitted'[i] = Ended(pid) ]_vars

\* history is a run of handlings, one after the other: each begins with the
\* next event number, and its inserts and its finish come before its end
OneAtATime ==
    \A i \in 1..Len(history) :
        IF history[i].op = "begin"
        THEN IF i = 1 THEN history[i].n = 1
             ELSE /\ history[i - 1].op = "end"
                  /\ history[i].n = history[i - 1].n + 1
        ELSE /\ i > 1
             /\ history[i - 1].op # "end"
             /\ history[i].n = history[i - 1].n

SuccessfulParses == reloads - loadErrors

\* the spawned write tasks land in the order of their parses
WritesInParseOrder ==
    Len(pendingWrites') < Len(pendingWrites) =>
        /\ pendingWrites' = Tail(pendingWrites)
        /\ config' = Head(pendingWrites)

\* C34: after any sequence of config-file changes the stored Config ends up
\* as the most recent successful parse: the parsed Configs are written in
\* the order of their parses, none over a later one, and a change
\* notification is sent only once the Config it announces has been stored,
\* so the notifications never outnumber the parses already written.
C34_ReloadOrdering ==
    /\ [](notified + Len(pendingWrites) <= SuccessfulParses)
    /\ [][WritesInParseOrder]_vars

\* C35: the actions match_command(command, config) returns are computed
\* with a matcher compiled from that config, the fingerprint stored with
\* the matcher being the fingerprint of the argument: on a cache hit, after
\* a cache miss, when the glob-set build fails, and when another caller
\* rebuilds the cache between the rebuild and the second read.  (A call
\* that found no matcher at all and returned the empty list is not held
\* against the property.)
C35_MatchAnswersFromItsConfig ==
    \A t \in Callers :
        (matching[t].pc = "done" /\ matching[t].from # None) =>
            matching[t].from =
                Some(calculate_config_hash(Unwrap(matching[t].cfg)))

\* the patterns of cfg that compile, as <<rule, position in the rule>>
CompiledPatterns(cfg) ==
    {rj \in (1..Len(cfg.rules)) \X (1..2) :
        /\ rj[2] <= Len(cfg.rules[rj[1]].command)
        /\ GlobCompiles(cfg.rules[rj[1]].command[rj[2]])}

\* the place of a compiled pattern among the compiled patterns, counted in
\* declaration order
RankOf(cfg, rj) ==
    1 + Cardinality({o \in CompiledPatterns(cfg) :
                        o[1] < rj[1] \/ (o[1] = rj[1] /\ o[2] < rj[2])})

\* the cached record is index-aligned with cfg
Aligned(data, cfg) ==
    /\ Len(data.rule_actions) = Len(data.glob_set)
    /\ Len(data.glob_set) = Cardinality(CompiledPatterns(cfg))
    /\ \A rj \in CompiledPatterns(cfg) :
          /\ data.glob_set[RankOf(cfg, rj)] = cfg.rules[rj[1]].command[rj[2]]
          /\ data.rule_actions[RankOf(cfg, rj)] = cfg.rules[rj[1]].action
    /\ \A command \in Commands :
          \A k \in 1..Len(GlobSetMatches(data.glob_set, command)) :
              GlobSetMatches(data.glob_set, command)[k]
                  \in 1..Len(data.rule_actions)

\* C36: in every cached matcher rule_actions has as many entries as the
\* glob set has globs, and entry i holds the actions of the rule that
\* declared the i-th pattern that compiled; a skipped invalid pattern shifts
\* neither side, so every index the glob set returns is a valid index into
\* rule_actions and maps to the right rule.
C36_GlobIndexAlignment ==
    cached_glob_data # None =>
        \E cfg \in LoadableConfigs :
            /\ calculate_config_hash(cfg) = Unwrap(cached_glob_data).config_hash
            /\ Aligned(Unwrap(cached_glob_data), cfg)

\* the matcher of the config with the invalid pattern is cached and has
\* answered a command that matches a pattern declared after the invalid one
C36_Witness ==
    /\ cached_glob_data # None
    /\ Unwrap(cached_glob_data).config_hash = calculate_config_hash(Config1)
    /\ Cardinality(CompiledPatterns(Config1)) < 4
    /\ \E t \in Callers :
          /\ matching[t].pc = "done"
          /\ matching[t].command = <<"b", "a">>
          /\ matching[t].from = Some(calculate_config_hash(Config1))
          /\ matching[t].answer = <<ActOverlay, ActLua>>

\* C37: when Config::load finds no config file, writes the default file
\* and returns a Config, loading the written file again yields a Config
\* with the same rules as the one it returned.
C37_DefaultConfigConsistent ==
    \A i \in 1..Len(loads) :
        (loads[i].op = "load" /\ ~loads[i].found /\ loads[i].result # None) =>
            /\ loads[i].file # None
            /\ ParseToml(Unwrap(loads[i].file)) # None
            /\ Unwrap(ParseToml(Unwrap(loads[i].file))).rules
                  = Unwrap(loads[i].result).rules

NotNull(ch) == ch # "NUL"

\* C38: for a process-start record whose pid can be parsed the kernel
\* probe emits exactly one Started event carrying that pid, with the
\* command line of the lookup (its null characters dropped) or "<unknown>"
\* when the lookup fails; a failed lookup never suppresses the event, and a
\* record whose pid cannot be parsed emits nothing.
C38_KernelStartEvent ==
    [][\A record \in EtwRecords :
          (kernel_probe'.records = kernel_probe.records + 1
             /\ kernel_probe'.last = Some(record)
             /\ record.event_id = 1) =>
            IF record.schema /\ record.pid # None
            THEN /\ Len(kernel_probe'.sent) = Len(kernel_probe.sent) + 1
                 /\ SubSeq(kernel_probe'.sent, 1, Len(kernel_probe.sent))
                       = kernel_probe.sent
                 /\ LET ev == kernel_probe'.sent[Len(kernel_probe'.sent)]
                    IN  /\ ev.tag = "Started"
                        /\ ev.pid = Unwrap(record.pid)
                        /\ ev.command =
                              IF record.lookup = None THEN <<"<unknown>">>
                              ELSE SelectSeq(Unwrap(record.lookup), NotNull)
            ELSE kernel_probe'.sent = kernel_probe.sent]_vars

\* the callback has sent a Started with the command line of the lookup and
\* a Started with "<unknown>" after a failed lookup, and a start record
\* whose pid did not parse was the last one and sent nothing
C38_Witness ==
    /\ Len(kernel_probe.sent) = 2
    /\ kernel_probe.sent[1] = Started(1, <<"a", "b">>)
    /\ kernel_probe.sent[2] = Started(2, UnknownCommand)
    /\ kernel_probe.records = 3
    /\ kernel_probe.last # None
    /\ Unwrap(kernel_probe.last).event_id = 1
    /\ Unwrap(kernel_probe.last).pid = None

\* C39: start() of the kernel probe returns Ok only if the tracing session
\* has been started and its handle stored, and when it returns Err no
\* tracing session is running or can still become running, whatever the
\* order of the thread's store and the check, so that stop() after a failed
\* start has nothing to release.
C39_StartOutcomeMatchesSession ==
    /\ (kernel_probe.start = "Ok" /\ kernel_probe.stop = "none") =>
          /\ kernel_probe.session
          /\ kernel_probe.handle # None
    /\ kernel_probe.start = "Err" =>
          /\ ~kernel_probe.session
          /\ kernel_probe.thread = "failed"
          /\ kernel_probe.handle = None
          /\ ~kernel_probe.released
====
